---- MODULE Spec2Model ----
(***************************************************************************)
(* Model of the model-serving and feature-preprocessing pipeline of        *)
(* backend/services.py (ModelService, AnalysisService) and of the HTTP     *)
(* handler of backend/main.py that calls it.                               *)
(*                                                                         *)
(* File names and model names are sequences of one-character strings, so   *)
(* that str.startswith, str.lower and the substring test of the code are   *)
(* computed rather than assumed.  Column names are plain strings: the code *)
(* only compares them for equality.                                        *)
(***************************************************************************)
EXTENDS Integers, Sequences, FiniteSets, TLC

VARIABLES
    model_files,      \* models/<stem>.pkl for the stems other than scaler and model_info
    scaler_file,      \* models/scaler.pkl
    info_file,        \* models/model_info.pkl
    loaded_models,    \* ModelService.loaded_models  (dict name -> model)
    loaded_scalers,   \* ModelService.loaded_scalers (dict 'scaler' -> scaler or None)
    model_info,       \* ModelService.model_info     (None or dict)
    clock,            \* the wall clock read by datetime.now()
    table,            \* the table of the request being served
    ret,              \* what the last call did: its inputs, its result or its exception
    prev,             \* the scoring call before the last one (inputs and result)
    calls             \* the load_model calls in progress: each thread's position and locals

vars == <<model_files, scaler_file, info_file, loaded_models, loaded_scalers,
          model_info, clock, table, ret, prev, calls>>

----------------------------------------------------------------------------
(* Bounds of the model.                                                    *)

MaxRows == 2
MaxCols == 3
MaxNaN == 1
MaxClock == 2
MaxThreads == 2

----------------------------------------------------------------------------
(* Sequences and names.                                                    *)

Range(s) == {s[i] : i \in DOMAIN s}

\* [x for x in s if x in keep]
Filter(s, keep) == SelectSeq(s, LAMBDA x : x \in keep)

\* the sequences over S without repetition, of length 0..n
RECURSIVE DistinctSeqs(_, _)
DistinctSeqs(S, n) ==
    IF n = 0 THEN {<<>>}
    ELSE LET shorter == DistinctSeqs(S, n - 1)
         IN  shorter \cup
             {Append(p[1], p[2]) : p \in {q \in shorter \X S : q[2] \notin Range(q[1])}}

\* str.startswith(prefix)
StartsWith(s, prefix) ==
    /\ Len(prefix) <= Len(s)
    /\ SubSeq(s, 1, Len(prefix)) = prefix

\* sub in s
Contains(s, sub) ==
    \E i \in 0..(Len(s) - Len(sub)) : SubSeq(s, i + 1, i + Len(sub)) = sub

\* str.lower(), on the letters the names of the model use
LowerChar(c) ==
    CASE c = "X" -> "x"
      [] c = "G" -> "g"
      [] c = "B" -> "b"
      [] OTHER -> c

Lower(s) == [i \in DOMAIN s |-> LowerChar(s[i])]

PklSuffix == <<".", "p", "k", "l">>
ScalerStem == <<"s", "c", "a", "l", "e", "r">>
InfoStem == <<"m", "o", "d", "e", "l", "_", "i", "n", "f", "o">>
XgboostWord == <<"x", "g", "b", "o", "o", "s", "t">>

\* names of model files the environment may create
RfName == <<"r", "f">>
XgbName == <<"x", "g", "b">>
XgboostName == <<"X", "G", "B", "o", "o", "s", "t">>
Scaler2Name == <<"s", "c", "a", "l", "e", "r", "2">>

\* names of the model files the training job writes
LogisticName ==
    <<"l", "o", "g", "i", "s", "t", "i", "c", "_", "r", "e", "g", "r", "e", "s", "s",
      "i", "o", "n", "_", "m", "o", "d", "e", "l">>
TreeName ==
    <<"d", "e", "c", "i", "s", "i", "o", "n", "_", "t", "r", "e", "e", "_", "m", "o",
      "d", "e", "l">>
ForestName ==
    <<"r", "a", "n", "d", "o", "m", "_", "f", "o", "r", "e", "s", "t", "_", "m", "o",
      "d", "e", "l">>
XgboostModelName ==
    <<"x", "g", "b", "o", "o", "s", "t", "_", "m", "o", "d", "e", "l">>

----------------------------------------------------------------------------
(* Column names.                                                           *)

TR == "Trademarks Registered"
NE == "Number of Events"
RF == "Repeat_Founder"
Company == "Company"
Revenue == "Revenue"

\* the built-in metadata of load_model_info
DefaultInfo ==
    [keys |-> {"predictors", "scale_features", "leave_unscaled"},
     predictors |-> <<
        "Trademarks Registered", "Number of Events", "Diversity Spotlight Dummy",
        "Repeat_Founder", "Asia Dummy", "Middle East Dummy",
        "Financing for entrepreneurs", "Governmental support and policies",
        "Taxes and bureaucracy", "Governmental programs", "R&D transfer",
        "Basic school entrepreneurial education and training",
        "Post school entrepreneurial education and training",
        "Physical and services infrastructure",
        "Commercial and professional infrastructure", "Internal market dynamics",
        "Internal market openness", "Cultural and social norms",
        "Food and Restaurant Dummy", "High Tech Dummy">>,
     scale_features |-> <<
        "Trademarks Registered", "Number of Events", "Financing for entrepreneurs",
        "Governmental support and policies",
        "Basic school entrepreneurial education and training",
        "Post school entrepreneurial education and training",
        "Taxes and bureaucracy", "Governmental programs", "R&D transfer",
        "Physical and services infrastructure",
        "Commercial and professional infrastructure", "Internal market dynamics",
        "Internal market openness", "Cultural and social norms">>,
     leave_unscaled |-> <<
        "Diversity Spotlight Dummy", "Repeat_Founder", "Asia Dummy",
        "Middle East Dummy", "Food and Restaurant Dummy", "High Tech Dummy">>,
     model_performance |-> <<>>]

\* Python's None, where a dict or an object is expected
None == [keys |-> {}]

\* dict.get(key, default)
Get(d, key, default) == IF key \in d.keys THEN d[key] ELSE default

----------------------------------------------------------------------------
(* Artifacts: what pickle.load returns for a file, or the exception it     *)
(* raises.                                                                 *)

\* the exceptions load_model and get_available_models catch around pickle.load
CaughtKinds == {"UnpicklingError", "EOFError", "ValueError"}

Absent == [exists |-> FALSE, pickle |-> "ok", obj |-> None]
File(o) == [exists |-> TRUE, pickle |-> "ok", obj |-> o]
Broken(kind) == [exists |-> TRUE, pickle |-> kind, obj |-> None]

\* An estimator fitted on an array: it declares no feature names.
PlainModel ==
    [keys |-> {"predict"}, id |-> "plain",
     feature_names_in_ |-> <<>>, booster_feature_names |-> <<>>, n_features_in_ |-> 2]

\* An estimator fitted on a frame: it has feature_names_in_.
NamedModel ==
    [keys |-> {"predict", "predict_proba", "feature_names_in_"}, id |-> "named",
     feature_names_in_ |-> <<NE, TR>>, booster_feature_names |-> <<>>, n_features_in_ |-> 2]

\* An XGBoost estimator whose names are only on its booster.
BoosterModel ==
    [keys |-> {"predict", "predict_proba", "get_booster"}, id |-> "booster",
     feature_names_in_ |-> <<>>, booster_feature_names |-> <<NE, TR>>, n_features_in_ |-> 2]

\* An XGBoost estimator fitted on an array: booster.feature_names is None.
BareBoosterModel ==
    [keys |-> {"predict", "predict_proba", "get_booster"}, id |-> "barebooster",
     feature_names_in_ |-> <<>>, booster_feature_names |-> <<>>, n_features_in_ |-> 2]

\* An estimator the training job fits: on a frame whose columns are the
\* scale_features followed by the leave_unscaled ones.
TrainedModel ==
    [keys |-> {"predict", "predict_proba", "feature_names_in_"}, id |-> "trained",
     feature_names_in_ |-> <<TR, NE, RF>>, booster_feature_names |-> <<>>,
     n_features_in_ |-> 3]

\* A classifier fitted on an array of n columns with the labels `classes`
\* (in hundredths: 0 and 100): predict_proba answers every row with `proba`,
\* one probability in hundredths for each class.
Classifier(n, classes, proba) ==
    [keys |-> {"predict", "predict_proba"}, id |-> "classifier",
     feature_names_in_ |-> <<>>, booster_feature_names |-> <<>>, n_features_in_ |-> n,
     classes |-> classes, proba |-> proba]

\* A regressor fitted on an array of n columns: it has no predict_proba, and
\* predict answers every row with `value` (in hundredths).
Regressor(n, value) ==
    [keys |-> {"predict"}, id |-> "regressor",
     feature_names_in_ |-> <<>>, booster_feature_names |-> <<>>, n_features_in_ |-> n,
     value |-> value]

\* hasattr(obj, attr)
HasAttr(obj, attr) == attr \in obj.keys

\* The metadata the training job writes: its predictors, in its order.
TrainedInfo ==
    [keys |-> {"predictors", "scale_features", "leave_unscaled", "model_performance"},
     predictors |-> <<TR, NE, RF>>,
     scale_features |-> <<TR, NE>>,
     leave_unscaled |-> <<RF>>,
     model_performance |-> <<"logistic_regression", "decision_tree",
                             "random_forest", "xgboost">>]

\* A StandardScaler fitted on a frame with the columns `features`: transform
\* subtracts mean_ (scale_ is 1 here).
TrainedScaler ==
    [keys |-> {"transform", "feature_names_in_"}, features |-> <<TR, NE>>, mean_ |-> <<3, 5>>]

----------------------------------------------------------------------------
(* The training job (train_ml_models.py).  Of the training data only the   *)
(* set of its columns matters here.                                        *)

TrainPredictors ==
    <<"Number of Investors", TR, NE, "Diversity Spotlight Dummy", RF,
      "America Dummy", "Asia Dummy", "Middle East Dummy",
      "Financing for entrepreneurs", "Governmental support and policies",
      "Taxes and bureaucracy", "Governmental programs", "R&D transfer",
      "Commercial and professional infrastructure", "Internal market dynamics",
      "Internal market openness", "Cultural and social norms",
      "Food and Restaurant Dummy", "High Tech Dummy">>

TrainScaleFeatures ==
    <<"Number of Investors", TR, NE,
      "Financing for entrepreneurs", "Governmental support and policies",
      "Taxes and bureaucracy", "Governmental programs", "R&D transfer",
      "Commercial and professional infrastructure", "Internal market dynamics",
      "Internal market openness", "Cultural and social norms">>

TrainLeaveUnscaled ==
    <<"Diversity Spotlight Dummy", RF, "America Dummy", "Asia Dummy",
      "Middle East Dummy", "Food and Restaurant Dummy", "High Tech Dummy">>

Target == "Closed Dummy"

\* [col for col in cols if col in df.columns]
keep_present(cols, columns) == SelectSeq(cols, LAMBDA col : col \in columns)

\* the three lists after the job has dropped the columns the data lacks
train_predictors(columns) == keep_present(TrainPredictors, columns)

\* scale_features left as it was when predictors are dropped
train_scale_features_unfiltered(columns) == TrainScaleFeatures

train_scale_features(columns) == keep_present(TrainScaleFeatures, columns)

train_leave_unscaled(columns) == keep_present(TrainLeaveUnscaled, columns)

\* the model_info dict the job pickles
train_model_info(columns) ==
    [keys |-> {"predictors", "scale_features", "leave_unscaled", "model_performance"},
     predictors |-> train_predictors(columns),
     scale_features |-> train_scale_features(columns),
     leave_unscaled |-> train_leave_unscaled(columns),
     model_performance |-> <<"logistic_regression", "decision_tree",
                             "random_forest", "xgboost">>]

\* the scaler the job fits on df[scale_features] and pickles
train_scaler(columns) ==
    [keys |-> {"transform", "feature_names_in_"},
     features |-> train_scale_features(columns),
     mean_ |-> [j \in DOMAIN train_scale_features(columns) |-> 3]]

\* an estimator the job fits on X_scaled: the scaled columns, then the others
train_estimator(columns, stem) ==
    [keys |-> IF stem = XgboostModelName
              THEN {"predict", "predict_proba", "feature_names_in_", "get_booster"}
              ELSE {"predict", "predict_proba", "feature_names_in_"},
     id |-> "trained",
     feature_names_in_ |-> train_scale_features(columns) \o train_leave_unscaled(columns),
     booster_feature_names |->
         IF stem = XgboostModelName
         THEN train_scale_features(columns) \o train_leave_unscaled(columns)
         ELSE <<>>,
     n_features_in_ |-> Len(train_scale_features(columns))
                            + Len(train_leave_unscaled(columns))]

----------------------------------------------------------------------------
(* The models directory.                                                   *)

TrainedStems == {LogisticName, TreeName, ForestName, XgboostModelName}

ModelStems == {RfName, XgbName, XgboostName, Scaler2Name} \cup TrainedStems

\* models_dir / f"{stem}.pkl"
FileAt(stem) ==
    IF stem = ScalerStem THEN scaler_file
    ELSE IF stem = InfoStem THEN info_file
    ELSE model_files[stem]

\* the stems of models_dir.glob("*.pkl")
GlobStems == {s \in ModelStems \cup {ScalerStem, InfoStem} : FileAt(s).exists}

\* Path.name of the file of a stem
FileName(stem) == stem \o PklSuffix

----------------------------------------------------------------------------
(* ModelService: the artifact loaders.  Each operator is the method as a   *)
(* function of the store it is called on: it gives the value returned or   *)
(* the exception raised, and the cache the call leaves behind.             *)

\* load_model that remembers a failed read: the name is cached with no model
read_model_file_remembers_failure(lm, model_name) ==
    LET f == FileAt(model_name)
    IN  IF ~f.exists
        THEN [raised |-> TRUE, exc |-> "FileNotFoundError", msg |-> "not found",
              value |-> None, loaded_models |-> (model_name :> None) @@ lm,
              opened |-> FALSE]
        ELSE IF f.pickle = "ok"
        THEN [raised |-> FALSE, exc |-> "", msg |-> "",
              value |-> f.obj, loaded_models |-> (model_name :> f.obj) @@ lm,
              opened |-> TRUE]
        ELSE IF f.pickle \in CaughtKinds
        THEN [raised |-> TRUE, exc |-> "FileNotFoundError", msg |-> "corrupted",
              value |-> None, loaded_models |-> (model_name :> None) @@ lm,
              opened |-> TRUE]
        ELSE [raised |-> TRUE, exc |-> f.pickle, msg |-> "",
              value |-> None, loaded_models |-> (model_name :> None) @@ lm,
              opened |-> TRUE]

\* load_model after the cache lookup: the file is opened and unpickled
read_model_file(lm, model_name) ==
    LET f == FileAt(model_name)
    IN  IF ~f.exists
        THEN [raised |-> TRUE, exc |-> "FileNotFoundError", msg |-> "not found",
              value |-> None, loaded_models |-> lm, opened |-> FALSE]
        ELSE IF f.pickle = "ok"
        THEN [raised |-> FALSE, exc |-> "", msg |-> "",
              value |-> f.obj, loaded_models |-> (model_name :> f.obj) @@ lm,
              opened |-> TRUE]
        ELSE IF f.pickle \in CaughtKinds
        THEN [raised |-> TRUE, exc |-> "FileNotFoundError", msg |-> "corrupted",
              value |-> None, loaded_models |-> lm, opened |-> TRUE]
        ELSE [raised |-> TRUE, exc |-> f.pickle, msg |-> "",
              value |-> None, loaded_models |-> lm, opened |-> TRUE]

\* load_model without its cache lookup
load_model_always_reads(lm, model_name) == read_model_file(lm, model_name)

\* ModelService.load_model
load_model(lm, model_name) ==
    IF model_name \in DOMAIN lm
    THEN [raised |-> FALSE, exc |-> "", msg |-> "",
          value |-> lm[model_name], loaded_models |-> lm, opened |-> FALSE]
    ELSE read_model_file(lm, model_name)

\* load_model_info that opens the metadata file without looking for it first
load_model_info_no_default(mi) ==
    IF mi # None
    THEN [raised |-> FALSE, exc |-> "", value |-> mi, model_info |-> mi]
    ELSE IF info_file.exists /\ info_file.pickle = "ok"
    THEN [raised |-> FALSE, exc |-> "", value |-> info_file.obj,
          model_info |-> info_file.obj]
    ELSE [raised |-> TRUE,
          exc |-> IF info_file.exists THEN info_file.pickle ELSE "FileNotFoundError",
          value |-> None, model_info |-> mi]

\* ModelService.load_model_info
load_model_info(mi) ==
    IF mi # None
    THEN [raised |-> FALSE, exc |-> "", value |-> mi, model_info |-> mi]
    ELSE IF info_file.exists
    THEN IF info_file.pickle = "ok"
         THEN [raised |-> FALSE, exc |-> "", value |-> info_file.obj,
               model_info |-> info_file.obj]
         ELSE [raised |-> TRUE, exc |-> info_file.pickle, value |-> None,
               model_info |-> mi]
    ELSE [raised |-> FALSE, exc |-> "", value |-> DefaultInfo, model_info |-> DefaultInfo]

\* load_scaler that caches a scaler it loaded, never the absence of one
load_scaler_retries_absent(ls) ==
    IF "scaler" \in ls.keys
    THEN [raised |-> FALSE, exc |-> "", value |-> ls.scaler, loaded_scalers |-> ls]
    ELSE IF scaler_file.exists
    THEN IF scaler_file.pickle = "ok"
         THEN [raised |-> FALSE, exc |-> "", value |-> scaler_file.obj,
               loaded_scalers |-> [keys |-> {"scaler"}, scaler |-> scaler_file.obj]]
         ELSE [raised |-> TRUE, exc |-> scaler_file.pickle, value |-> None,
               loaded_scalers |-> ls]
    ELSE [raised |-> FALSE, exc |-> "", value |-> None, loaded_scalers |-> ls]

\* ModelService.load_scaler; loaded_scalers is the dict, its key 'scaler'
load_scaler(ls) ==
    IF "scaler" \in ls.keys
    THEN [raised |-> FALSE, exc |-> "", value |-> ls.scaler, loaded_scalers |-> ls]
    ELSE IF scaler_file.exists
    THEN IF scaler_file.pickle = "ok"
         THEN [raised |-> FALSE, exc |-> "", value |-> scaler_file.obj,
               loaded_scalers |-> [keys |-> {"scaler"}, scaler |-> scaler_file.obj]]
         ELSE [raised |-> TRUE, exc |-> scaler_file.pickle, value |-> None,
               loaded_scalers |-> ls]
    ELSE [raised |-> FALSE, exc |-> "", value |-> None,
          loaded_scalers |-> [keys |-> {"scaler"}, scaler |-> None]]

\* the filter of get_available_models on a file of the directory
IsReserved(stem) ==
    \/ StartsWith(FileName(stem), ScalerStem)
    \/ StartsWith(FileName(stem), InfoStem)

\* the loop of get_available_models over the files in glob order, from the
\* i-th on, with the names collected so far
RECURSIVE verify_from(_, _, _)
verify_from(order, i, available_models) ==
    IF i > Len(order)
    THEN [raised |-> FALSE, exc |-> "", value |-> available_models]
    ELSE LET stem == order[i]
             f == FileAt(stem)
         IN  IF IsReserved(stem)
             THEN verify_from(order, i + 1, available_models)
             ELSE IF f.pickle = "ok"
             THEN verify_from(order, i + 1, Append(available_models, stem))
             ELSE IF f.pickle \in CaughtKinds
             THEN verify_from(order, i + 1, available_models)
             ELSE [raised |-> TRUE, exc |-> f.pickle, value |-> <<>>]

\* ModelService.get_available_models, the directory listed in the order `order`
get_available_models(order) == verify_from(order, 1, <<>>)

\* the orders in which glob may list the directory
GlobOrders == {o \in DistinctSeqs(GlobStems, Cardinality(GlobStems)) :
                  Len(o) = Cardinality(GlobStems)}

----------------------------------------------------------------------------
(* Tables (pandas DataFrame): the column names in order, the columns of    *)
(* object dtype (strings), and the rows.  A cell is NaN or <<v>>.          *)

NaN == <<>>
Num(v) == <<v>>

\* df[cols]
Select(df, cols) ==
    [columns |-> cols,
     object |-> df.object \cap Range(cols),
     rows |-> [i \in DOMAIN df.rows |-> [c \in Range(cols) |-> df.rows[i][c]]]]

\* df.select_dtypes(include=[np.number])
select_numeric(df) ==
    Select(df, SelectSeq(df.columns, LAMBDA c : c \notin df.object))

\* df.fillna(0)
fillna0(df) ==
    [df EXCEPT !.rows =
        [i \in DOMAIN df.rows |->
            [c \in Range(df.columns) |->
                IF df.rows[i][c] = NaN THEN Num(0) ELSE df.rows[i][c]]]]

\* index of a column in a list of columns that holds it
IndexOf(cols, c) == CHOOSE j \in DOMAIN cols : cols[j] = c

\* whether scaler.transform(df[cols]) raises: df[cols] raises KeyError for a
\* column the frame lacks; the scaler raises ValueError for an empty frame,
\* for strings, and for columns other than the ones it was fitted on
transform_fails(scaler, df, cols) ==
    \/ ~(Range(cols) \subseteq Range(df.columns))
    \/ Len(df.rows) = 0
    \/ Range(cols) \cap df.object # {}
    \/ Len(cols) # Len(scaler.features)
    \/ HasAttr(scaler, "feature_names_in_") /\ cols # scaler.features

\* df[:] = scaler.transform(df): the whole frame scaled, not the columns cols
assign_scaled_whole_frame(scaler, df, cols) ==
    [df EXCEPT !.rows =
        [i \in DOMAIN df.rows |->
            [c \in Range(df.columns) |->
                IF c \in Range(cols)
                THEN Num(df.rows[i][c][1] - scaler.mean_[IndexOf(cols, c)])
                ELSE Num(df.rows[i][c][1] - scaler.mean_[1])]]]

\* df[cols] = scaler.transform(df[cols]), when the transform succeeds
assign_scaled(scaler, df, cols) ==
    [df EXCEPT !.rows =
        [i \in DOMAIN df.rows |->
            [c \in Range(df.columns) |->
                IF c \in Range(cols)
                THEN Num(df.rows[i][c][1] - scaler.mean_[IndexOf(cols, c)])
                ELSE df.rows[i][c]]]]

----------------------------------------------------------------------------
(* ModelService.preprocess_data                                            *)

\* a model_name that is None or empty: no model is loaded for it
NoName == <<>>

\* the feature names the loaded model gives, else the metadata's predictors
\* (the if/elif/else over the model)
model_predictors(model, model_name, info) ==
    IF model # None /\ HasAttr(model, "feature_names_in_")
    THEN model.feature_names_in_
    ELSE IF model # None /\ Contains(Lower(model_name), XgboostWord)
    THEN IF HasAttr(model, "get_booster")
         THEN IF model.booster_feature_names # <<>>
              THEN model.booster_feature_names
              ELSE Get(info, "predictors", <<>>)
         ELSE Get(info, "predictors", <<>>)
    ELSE Get(info, "predictors", <<>>)

\* the try block around load_model: any exception gives the metadata's predictors
resolve_predictors(loaded, model_name, info) ==
    IF loaded.raised
    THEN Get(info, "predictors", <<>>)
    ELSE model_predictors(loaded.value, model_name, info)

\* the columns of the table that are in cols: the table's order, not the list's
available_in_table_order(cols, df) == Filter(df.columns, Range(cols))

\* [col for col in cols if col in available_columns]
available_only(cols, df) == Filter(cols, Range(df.columns))

\* the scaling step on the selected and filled frame
scale_step(scaler, df_subset, scale_features) ==
    IF scaler # None /\ scale_features # <<>>
    THEN IF transform_fails(scaler, df_subset, scale_features)
         THEN [value |-> df_subset, scaled |-> FALSE, attempted |-> TRUE]
         ELSE [value |-> assign_scaled(scaler, df_subset, scale_features),
               scaled |-> TRUE, attempted |-> TRUE]
    ELSE [value |-> df_subset, scaled |-> FALSE, attempted |-> FALSE]

\* the last steps of preprocess_data: select, fill, scale
select_fill_scale(df, predictors, scale_features, scaler) ==
    IF predictors = <<>>
    THEN [value |-> select_numeric(df), path |-> "numeric", predictors |-> predictors,
          scale_features |-> scale_features, scaled |-> FALSE, attempted |-> FALSE]
    ELSE scale_step(scaler, fillna0(Select(df, predictors)), scale_features)
            @@ [path |-> "predictors", predictors |-> predictors,
                scale_features |-> scale_features]

\* the frame built once the predictors are resolved: the lists are cut down
\* to the columns of the table only when a predictor is missing from it
build_frame(df, resolved, info, scaler) ==
    IF \E j \in DOMAIN resolved : resolved[j] \notin Range(df.columns)
    THEN select_fill_scale(df, available_only(resolved, df),
                           available_only(Get(info, "scale_features", <<>>), df), scaler)
    ELSE select_fill_scale(df, resolved, Get(info, "scale_features", <<>>), scaler)

NoFrame ==
    [value |-> None, path |-> "", predictors |-> <<>>, scale_features |-> <<>>,
     scaled |-> FALSE, attempted |-> FALSE]

NoModelLoaded(lm) ==
    [raised |-> FALSE, exc |-> "", msg |-> "", value |-> None, loaded_models |-> lm,
     opened |-> FALSE]

\* preprocess_data whose filtering assigns the cut lists to the cached
\* metadata instead of rebinding its locals
preprocess_loaded_filters_in_place(i, s, m, lm, ls, df, model_name) ==
    IF i.raised
    THEN [raised |-> TRUE, exc |-> i.exc, out |-> NoFrame, resolved |-> <<>>,
          loaded_models |-> lm, loaded_scalers |-> ls, model_info |-> i.model_info]
    ELSE IF s.raised
    THEN [raised |-> TRUE, exc |-> s.exc, out |-> NoFrame, resolved |-> <<>>,
          loaded_models |-> lm, loaded_scalers |-> s.loaded_scalers,
          model_info |-> i.model_info]
    ELSE [raised |-> FALSE, exc |-> "",
          out |-> build_frame(df, resolve_predictors(m, model_name, i.value),
                              i.value, s.value),
          resolved |-> resolve_predictors(m, model_name, i.value),
          loaded_models |-> m.loaded_models,
          loaded_scalers |-> s.loaded_scalers,
          model_info |->
             IF \E c \in Range(resolve_predictors(m, model_name, i.value)) :
                   c \notin Range(df.columns)
             THEN [i.model_info EXCEPT
                      !.predictors = available_only(@, df),
                      !.scale_features = available_only(@, df),
                      !.leave_unscaled = available_only(@, df)]
             ELSE i.model_info]

\* preprocess_data once its three loads (i, s, m) are made, in that order: an
\* exception of load_model_info or load_scaler ends the call, one of load_model
\* does not
preprocess_loaded(i, s, m, lm, ls, df, model_name) ==
    IF i.raised
    THEN [raised |-> TRUE, exc |-> i.exc, out |-> NoFrame, resolved |-> <<>>,
          loaded_models |-> lm, loaded_scalers |-> ls, model_info |-> i.model_info]
    ELSE IF s.raised
    THEN [raised |-> TRUE, exc |-> s.exc, out |-> NoFrame, resolved |-> <<>>,
          loaded_models |-> lm, loaded_scalers |-> s.loaded_scalers,
          model_info |-> i.model_info]
    ELSE [raised |-> FALSE, exc |-> "",
          out |-> build_frame(df, resolve_predictors(m, model_name, i.value),
                              i.value, s.value),
          resolved |-> resolve_predictors(m, model_name, i.value),
          loaded_models |-> m.loaded_models,
          loaded_scalers |-> s.loaded_scalers,
          model_info |-> i.model_info]

\* preprocess_data that looks the model up in the cache and never loads it
preprocess_data_cached_model_only(lm, ls, mi, df, model_name) ==
    preprocess_loaded(load_model_info(mi), load_scaler(ls),
                      IF model_name # NoName /\ model_name \in DOMAIN lm
                      THEN load_model(lm, model_name)
                      ELSE NoModelLoaded(lm),
                      lm, ls, df, model_name)

\* ModelService.preprocess_data on the store (lm, ls, mi)
preprocess_data(lm, ls, mi, df, model_name) ==
    preprocess_loaded(load_model_info(mi), load_scaler(ls),
                      IF model_name # NoName THEN load_model(lm, model_name)
                      ELSE NoModelLoaded(lm),
                      lm, ls, df, model_name)

\* preprocess_data that fills and scales the caller's frame itself: the cells
\* of the frame it returns are written into df
df_after_preprocess_in_place(df, p) ==
    IF p.raised \/ p.out.path # "predictors"
    THEN df
    ELSE [df EXCEPT !.rows =
            [i \in DOMAIN df.rows |->
                [c \in Range(df.columns) |->
                    IF c \in Range(p.out.value.columns)
                    THEN p.out.value.rows[i][c]
                    ELSE df.rows[i][c]]]]

\* the caller's frame df after preprocess_data returned p: df_subset is
\* df[predictors].copy(), fillna(0) gives a new frame and the scaling
\* assignment writes into df_subset, so nothing is written into df
df_after_preprocess(df, p) == df

\* the caller's frame after predict: preprocess_data runs once the model is
\* loaded, and model.predict only reads the frame it is given
df_after_predict(lm, ls, mi, df, model_name) ==
    IF load_model(lm, model_name).raised
    THEN df
    ELSE df_after_preprocess(df,
            preprocess_data(load_model(lm, model_name).loaded_models, ls, mi, df,
                            model_name))

----------------------------------------------------------------------------
(* ModelService.predict and AnalysisService.analyze_csv                    *)

\* model.predict(frame) of the estimator libraries: an estimator rejects a
\* frame that is not the shape it was fitted on; scikit-learn estimators also
\* reject missing values and empty frames, XGBoost reads a missing value as 0.
predict_fails(model, frame) ==
    \/ Len(frame.columns) # model.n_features_in_
    \/ frame.object # {}
    \/ HasAttr(model, "feature_names_in_") /\ frame.columns # model.feature_names_in_
    \/ /\ HasAttr(model, "get_booster")
       /\ model.booster_feature_names # <<>>
       /\ frame.columns # model.booster_feature_names
    \/ /\ ~HasAttr(model, "get_booster")
       /\ \/ Len(frame.rows) = 0
          \/ \E i \in DOMAIN frame.rows, c \in Range(frame.columns) : frame.rows[i][c] = NaN

\* whether the error model.predict raises can name columns: an estimator
\* fitted on an array knows no column name, one fitted on a frame reports the
\* names it was fitted on
predict_error_names_columns(model) ==
    HasAttr(model, "feature_names_in_") \/ model.booster_feature_names # <<>>

CellValue(cell) == IF cell = NaN THEN 0 ELSE cell[1]

\* the score of one row: it depends on the position of each value
RECURSIVE row_score(_, _, _)
row_score(row, cols, j) ==
    IF j > Len(cols) THEN 0
    ELSE j * CellValue(row[cols[j]]) + row_score(row, cols, j + 1)

\* the label a classifier predicts: the most probable class, the first on a tie
predicted_label(classes, proba) ==
    IF Len(proba) > 1 /\ proba[2] > proba[1] THEN classes[2] ELSE classes[1]

\* model.predict(frame): one prediction for each row
model_predict(model, frame) ==
    [i \in DOMAIN frame.rows |->
        IF model.id = "classifier" THEN predicted_label(model.classes, model.proba)
        ELSE IF model.id = "regressor" THEN model.value
        ELSE row_score(frame.rows[i], frame.columns, 1)]

\* model.predict_proba(frame): one row of class probabilities for each row
model_predict_proba(model, frame) ==
    [i \in DOMAIN frame.rows |-> model.proba]

\* predict once the model is loaded (m) and the table preprocessed (p)
predict_loaded(m, p, lm, ls, mi) ==
    IF m.raised
    THEN [raised |-> TRUE, exc |-> m.exc, value |-> <<>>, frame |-> None,
          loaded_models |-> lm, loaded_scalers |-> ls, model_info |-> mi]
    ELSE IF p.raised
    THEN [raised |-> TRUE, exc |-> p.exc, value |-> <<>>, frame |-> None,
          loaded_models |-> p.loaded_models, loaded_scalers |-> p.loaded_scalers,
          model_info |-> p.model_info]
    ELSE IF predict_fails(m.value, p.out.value)
    THEN [raised |-> TRUE, exc |-> "ValueError", value |-> <<>>, frame |-> p.out.value,
          loaded_models |-> p.loaded_models, loaded_scalers |-> p.loaded_scalers,
          model_info |-> p.model_info]
    ELSE IF Len(p.out.value.rows) = 0
    THEN \* the log line of the prediction range: predictions.min() of an empty
         \* array raises ValueError inside the try, which re-raises it
         [raised |-> TRUE, exc |-> "ValueError", value |-> <<>>, frame |-> p.out.value,
          loaded_models |-> p.loaded_models, loaded_scalers |-> p.loaded_scalers,
          model_info |-> p.model_info]
    ELSE [raised |-> FALSE, exc |-> "", value |-> model_predict(m.value, p.out.value),
          frame |-> p.out.value,
          loaded_models |-> p.loaded_models, loaded_scalers |-> p.loaded_scalers,
          model_info |-> p.model_info]

\* ModelService.predict on the store (lm, ls, mi)
predict(lm, ls, mi, model_name, df) ==
    predict_loaded(load_model(lm, model_name),
                   preprocess_data(load_model(lm, model_name).loaded_models, ls, mi, df,
                                   model_name),
                   lm, ls, mi)

RECURSIVE SeqMin(_, _)
SeqMin(s, j) ==
    IF j = Len(s) THEN s[j]
    ELSE LET rest == SeqMin(s, j + 1) IN IF s[j] < rest THEN s[j] ELSE rest

RECURSIVE SeqMax(_, _)
SeqMax(s, j) ==
    IF j = Len(s) THEN s[j]
    ELSE LET rest == SeqMax(s, j + 1) IN IF s[j] > rest THEN s[j] ELSE rest

RECURSIVE SeqSum(_, _)
SeqSum(s, j) == IF j > Len(s) THEN 0 ELSE s[j] + SeqSum(s, j + 1)

RECURSIVE InsertSorted(_, _)
InsertSorted(x, s) ==
    IF s = <<>> THEN <<x>>
    ELSE IF x <= Head(s) THEN <<x>> \o s
    ELSE <<Head(s)>> \o InsertSorted(x, Tail(s))

RECURSIVE Sorted(_)
Sorted(s) == IF s = <<>> THEN <<>> ELSE InsertSorted(Head(s), Sorted(Tail(s)))

\* 4 * np.percentile(predictions, 25 * q) for q = 1 and q = 3, by linear
\* interpolation between the two nearest ranks of the sorted values
quartile_times_4(sorted, q) ==
    LET pos == q * (Len(sorted) - 1)
        k == pos \div 4
        r == pos % 4
    IN  IF r = 0 THEN 4 * sorted[k + 1]
        ELSE 4 * sorted[k + 1] + r * (sorted[k + 2] - sorted[k + 1])

\* ((predictions < Q1 - 1.5 * IQR) | (predictions > Q3 + 1.5 * IQR)).sum(),
\* from 4 * Q1 and 4 * Q3
count_outliers(predictions, q1, q3) ==
    Cardinality({j \in DOMAIN predictions :
                    \/ 8 * predictions[j] < 2 * q1 - 3 * (q3 - q1)
                    \/ 8 * predictions[j] > 2 * q3 + 3 * (q3 - q1)})

\* the deviations from the mean, times the number of predictions
deviations(predictions) ==
    [j \in DOMAIN predictions |->
        Len(predictions) * predictions[j] - SeqSum(predictions, 1)]

\* Whole numbers too large for a machine word, as their digits in base 10000,
\* the lowest first: the moments below are sums of cubes.
RECURSIVE ToBig(_)
ToBig(n) == IF n < 10000 THEN <<n>> ELSE <<n % 10000>> \o ToBig(n \div 10000)

BigDigit(a) == IF a = <<>> THEN 0 ELSE Head(a)

BigRest(a) == IF a = <<>> THEN <<>> ELSE Tail(a)

RECURSIVE BigAdd(_, _, _)
BigAdd(a, b, carry) ==
    IF a = <<>> /\ b = <<>>
    THEN IF carry = 0 THEN <<>> ELSE <<carry>>
    ELSE <<(BigDigit(a) + BigDigit(b) + carry) % 10000>>
            \o BigAdd(BigRest(a), BigRest(b), (BigDigit(a) + BigDigit(b) + carry) \div 10000)

\* a - b for a >= b
RECURSIVE BigSub(_, _, _)
BigSub(a, b, borrow) ==
    IF a = <<>> THEN <<>>
    ELSE IF Head(a) - BigDigit(b) - borrow < 0
    THEN <<Head(a) - BigDigit(b) - borrow + 10000>> \o BigSub(Tail(a), BigRest(b), 1)
    ELSE <<Head(a) - BigDigit(b) - borrow>> \o BigSub(Tail(a), BigRest(b), 0)

RECURSIVE BigScale(_, _, _)
BigScale(a, d, carry) ==
    IF a = <<>>
    THEN IF carry = 0 THEN <<>> ELSE <<carry>>
    ELSE <<(Head(a) * d + carry) % 10000>>
            \o BigScale(Tail(a), d, (Head(a) * d + carry) \div 10000)

RECURSIVE BigMul(_, _)
BigMul(a, b) ==
    IF b = <<>> THEN <<>>
    ELSE BigAdd(BigScale(a, Head(b), 0), <<0>> \o BigMul(a, Tail(b)), 0)

RECURSIVE BigTrim(_)
BigTrim(a) ==
    IF a # <<>> /\ a[Len(a)] = 0 THEN BigTrim(SubSeq(a, 1, Len(a) - 1)) ELSE a

RECURSIVE BigLessFrom(_, _, _)
BigLessFrom(a, b, j) ==
    IF j = 0 THEN FALSE
    ELSE IF a[j] # b[j] THEN a[j] < b[j]
    ELSE BigLessFrom(a, b, j - 1)

BigLessTrimmed(a, b) ==
    IF Len(a) # Len(b) THEN Len(a) < Len(b) ELSE BigLessFrom(a, b, Len(a))

BigLess(a, b) == BigLessTrimmed(BigTrim(a), BigTrim(b))

BigCube(a) == BigMul(a, BigMul(a, a))

Abs(x) == IF x < 0 THEN 0 - x ELSE x

\* the sum of | d | ** k over the deviations d of one sign (k = 2: of both)
RECURSIVE moment(_, _, _, _)
moment(devs, k, sign, j) ==
    IF j > Len(devs) THEN <<>>
    ELSE IF k = 2
    THEN BigAdd(BigMul(ToBig(Abs(devs[j])), ToBig(Abs(devs[j]))),
                moment(devs, k, sign, j + 1), 0)
    ELSE IF sign * devs[j] > 0
    THEN BigAdd(BigCube(ToBig(Abs(devs[j]))), moment(devs, k, sign, j + 1), 0)
    ELSE moment(devs, k, sign, j + 1)

\* the branches of _describe_distribution on skewness = m3 / std ** 3, where
\* skewness ** 2 = n * M3 ** 2 / M2 ** 3 for the sums M2 and M3 of the squares
\* and cubes of the deviations, M3 = up - down; with std = 0 the skewness is
\* 0 / 0 = nan, which fails both comparisons
skewness_branch(n, M2, up, down, absM3) ==
    IF BigTrim(M2) = <<>> THEN "Left-skewed (more high values)"
    ELSE IF BigLess(BigScale(BigMul(absM3, absM3), 4 * n, 0), BigCube(M2))
    THEN "Normal (symmetric)"
    ELSE IF BigLess(down, up)
            /\ BigLess(BigCube(M2), BigScale(BigMul(absM3, absM3), 4 * n, 0))
    THEN "Right-skewed (more low values)"
    ELSE "Left-skewed (more high values)"

skewness_of(n, M2, up, down) ==
    skewness_branch(n, M2, up, down,
                    IF BigLess(up, down) THEN BigSub(down, up, 0) ELSE BigSub(up, down, 0))

\* AnalysisService._describe_distribution
describe_distribution(predictions) ==
    skewness_of(Len(predictions),
                moment(deviations(predictions), 2, 0, 1),
                moment(deviations(predictions), 3, 1, 1),
                moment(deviations(predictions), 3, -1, 1))

\* np.mean(predictions), a fraction
mean_of(predictions) == [num |-> SeqSum(predictions, 1), den |-> Len(predictions)]

\* np.std(predictions) ** 2, a fraction
variance_of(predictions) ==
    [num |-> SeqSum([j \in DOMAIN predictions |->
                        deviations(predictions)[j] * deviations(predictions)[j]], 1),
     den |-> Len(predictions) * Len(predictions) * Len(predictions)]

\* the quotient and the remainder of a by the small number d, from the digit j
\* down, rem being the remainder of the digits above
RECURSIVE BigDivFrom(_, _, _, _)
BigDivFrom(a, d, j, rem) ==
    IF j = 0 THEN [quo |-> <<>>, rem |-> rem]
    ELSE [quo |-> BigDivFrom(a, d, j - 1, (rem * 10000 + a[j]) % d).quo
                     \o <<(rem * 10000 + a[j]) \div d>>,
          rem |-> BigDivFrom(a, d, j - 1, (rem * 10000 + a[j]) % d).rem]

BigDiv(a, d) == BigDivFrom(a, d, Len(a), 0)

RECURSIVE BigPow2(_)
BigPow2(k) ==
    IF k = 0 THEN <<1>>
    ELSE IF k >= 13 THEN BigScale(BigPow2(k - 13), 8192, 0)
    ELSE BigScale(BigPow2(k - 1), 2, 0)

\* A float (IEEE double) is man * 2 ** exp with man below 2 ** 53.
\* round_half_even: the quotient qr of a division by d, rounded to the nearest
\* whole number, to the even one on a tie
round_half_even(qr, d) ==
    IF 2 * qr.rem > d \/ (2 * qr.rem = d /\ BigDigit(qr.quo) % 2 = 1)
    THEN BigAdd(qr.quo, <<1>>, 0)
    ELSE qr.quo

\* the double nearest to num / d * 2 ** exp, for num > 0
RECURSIVE to_double(_, _, _)
to_double(num, d, exp) ==
    IF BigLess(num, BigScale(BigPow2(52), d, 0))
    THEN to_double(BigScale(num, 2, 0), d, exp - 1)
    ELSE IF ~BigLess(num, BigScale(BigPow2(53), d, 0))
    THEN to_double(num, 2 * d, exp + 1)
    ELSE [man |-> BigTrim(round_half_even(BigDiv(num, d), d)), exp |-> exp]

FloatZero == [man |-> <<>>, exp |-> 0]

\* count / n as a double
float_div(count, n) ==
    IF count = 0 THEN FloatZero
    ELSE to_double(BigMul(ToBig(count), BigPow2(52)), n, 0 - 52)

\* x * 100 as a double
float_times_100(x) ==
    IF x.man = <<>> THEN FloatZero ELSE to_double(BigScale(x.man, 100, 0), 1, x.exp)

\* float(count / len(predictions) * 100)
percentage_of(count, n) == float_times_100(float_div(count, n))

\* 100 * np.percentile(predictions, q) by linear interpolation between the two
\* nearest ranks of the sorted values
percentile_times_100(sorted, q) ==
    LET pos == q * (Len(sorted) - 1)
        k == pos \div 100
        r == pos % 100
    IN  IF r = 0 THEN 100 * sorted[k + 1]
        ELSE 100 * sorted[k + 1] + r * (sorted[k + 2] - sorted[k + 1])

\* the medium segment taking the second threshold too
segment_counts_overlapping(predictions, t0, t1) ==
    [low |-> Cardinality({j \in DOMAIN predictions : 100 * predictions[j] < t0}),
     medium |-> Cardinality({j \in DOMAIN predictions :
                                100 * predictions[j] >= t0 /\ 100 * predictions[j] <= t1}),
     high |-> Cardinality({j \in DOMAIN predictions : 100 * predictions[j] >= t1})]

\* _segment_predictions from the thresholds (times 100) t0 and t1
segment_counts(predictions, t0, t1) ==
    [low |-> Cardinality({j \in DOMAIN predictions : 100 * predictions[j] < t0}),
     medium |-> Cardinality({j \in DOMAIN predictions :
                                100 * predictions[j] >= t0 /\ 100 * predictions[j] < t1}),
     high |-> Cardinality({j \in DOMAIN predictions : 100 * predictions[j] >= t1})]

\* the dict _segment_predictions returns for the counts c of n predictions
segments_of(c, n) ==
    [low |-> [count |-> c.low, percentage |-> percentage_of(c.low, n)],
     medium |-> [count |-> c.medium, percentage |-> percentage_of(c.medium, n)],
     high |-> [count |-> c.high, percentage |-> percentage_of(c.high, n)]]

\* AnalysisService._segment_predictions
segment_predictions(predictions) ==
    segments_of(segment_counts(predictions,
                               percentile_times_100(Sorted(predictions), 33),
                               percentile_times_100(Sorted(predictions), 67)),
                Len(predictions))

\* analyze_csv once the predictions are made (r); on no prediction np.min
\* raises ValueError, if np.percentile has not raised before it
summarize(r, model_name, now) ==
    IF r.raised
    THEN [raised |-> TRUE, exc |-> r.exc, value |-> None,
          loaded_models |-> r.loaded_models, loaded_scalers |-> r.loaded_scalers,
          model_info |-> r.model_info]
    ELSE IF Len(r.value) = 0
    THEN [raised |-> TRUE, exc |-> "ValueError", value |-> None,
          loaded_models |-> r.loaded_models, loaded_scalers |-> r.loaded_scalers,
          model_info |-> r.model_info]
    ELSE [raised |-> FALSE, exc |-> "",
          value |-> [keys |-> {"model_used", "predictions", "summary_stats", "insights",
                               "model_performance", "timestamp"},
                     model_used |-> model_name,
                     predictions |-> r.value,
                     summary_stats |-> [count |-> Len(r.value),
                                        mean |-> mean_of(r.value),
                                        variance |-> variance_of(r.value),
                                        min |-> SeqMin(r.value, 1),
                                        max |-> SeqMax(r.value, 1)],
                     insights |->
                         [outlier_count |->
                              count_outliers(r.value,
                                             quartile_times_4(Sorted(r.value), 1),
                                             quartile_times_4(Sorted(r.value), 3)),
                          distribution_shape |-> describe_distribution(r.value),
                          risk_segments |-> segment_predictions(r.value)],
                     model_performance |-> Get(r.model_info, "model_performance", <<>>),
                     timestamp |-> now],
          loaded_models |-> r.loaded_models, loaded_scalers |-> r.loaded_scalers,
          model_info |-> r.model_info]

\* AnalysisService.analyze_csv on the store (lm, ls, mi), called at time `now`
analyze_csv(lm, ls, mi, df, model_name, now) ==
    summarize(predict(lm, ls, mi, model_name, df), model_name, now)

\* the status the analyze_csv handler of main.py gives an exception of the service
http_status(exc) == IF exc = "FileNotFoundError" THEN 404 ELSE 500

----------------------------------------------------------------------------
(* RiskService.  A feature value is a number in tenths (4.5 is <<45>>) or   *)
(* a Python bool; a score is in hundredths (0.3 is 30).  A dict is its keys *)
(* in insertion order and its value at each key.                           *)

Tenths(units, tenth) == Num(10 * units + tenth)
Bool(b) == <<"bool", b>>

\* isinstance(value, bool)
IsBool(value) == Len(value) = 2

\* int(value) of a bool
int_of(value) == IF value[2] THEN Tenths(1, 0) ELSE Tenths(0, 0)

\* the number a value compares as: True is 1 and False is 0
NumberOf(value) == IF IsBool(value) THEN int_of(value)[1] ELSE value[1]

\* RiskService.get_feature_definitions: the name and the default of each feature
FeatureDefinitions ==
    << [name |-> TR, default_value |-> Tenths(1, 0)],
       [name |-> NE, default_value |-> Tenths(5, 0)],
       [name |-> "Financing for entrepreneurs", default_value |-> Tenths(4, 5)],
       [name |-> "Governmental support and policies", default_value |-> Tenths(4, 0)],
       [name |-> "Taxes and bureaucracy", default_value |-> Tenths(3, 5)],
       [name |-> "Governmental programs", default_value |-> Tenths(4, 5)],
       [name |-> "R&D transfer", default_value |-> Tenths(4, 0)],
       [name |-> "Basic school entrepreneurial education and training",
        default_value |-> Tenths(3, 5)],
       [name |-> "Post school entrepreneurial education and training",
        default_value |-> Tenths(4, 5)],
       [name |-> "Physical and services infrastructure", default_value |-> Tenths(5, 0)],
       [name |-> "Commercial and professional infrastructure",
        default_value |-> Tenths(5, 0)],
       [name |-> "Internal market dynamics", default_value |-> Tenths(4, 5)],
       [name |-> "Internal market openness", default_value |-> Tenths(5, 0)],
       [name |-> "Cultural and social norms", default_value |-> Tenths(4, 5)],
       [name |-> "Diversity Spotlight Dummy", default_value |-> Bool(FALSE)],
       [name |-> RF, default_value |-> Bool(FALSE)],
       [name |-> "High Tech Dummy", default_value |-> Bool(TRUE)],
       [name |-> "Asia Dummy", default_value |-> Bool(FALSE)],
       [name |-> "Middle East Dummy", default_value |-> Bool(FALSE)],
       [name |-> "Food and Restaurant Dummy", default_value |-> Bool(FALSE)] >>

EmptyDict == [order |-> <<>>, at |-> <<>>]

\* get_default_values that leaves out the last feature of the schema
get_default_values_but_last ==
    [order |-> [j \in 1..(Len(FeatureDefinitions) - 1) |-> FeatureDefinitions[j].name],
     at |-> [k \in {FeatureDefinitions[j].name : j \in 1..(Len(FeatureDefinitions) - 1)} |->
                FeatureDefinitions[CHOOSE j \in DOMAIN FeatureDefinitions :
                                      FeatureDefinitions[j].name = k].default_value]]

\* RiskService.get_default_values
get_default_values ==
    [order |-> [j \in DOMAIN FeatureDefinitions |-> FeatureDefinitions[j].name],
     at |-> [k \in {FeatureDefinitions[j].name : j \in DOMAIN FeatureDefinitions} |->
                FeatureDefinitions[CHOOSE j \in DOMAIN FeatureDefinitions :
                                      FeatureDefinitions[j].name = k].default_value]]

\* d.update(other) where other's values are kept for the keys of both
dict_update_keeps_own(d, other) ==
    [order |-> d.order \o SelectSeq(other.order, LAMBDA k : k \notin Range(d.order)),
     at |-> [k \in Range(d.order) \cup Range(other.order) |->
                IF k \in Range(d.order) THEN d.at[k] ELSE other.at[k]]]

\* d.update(other)
dict_update(d, other) ==
    [order |-> d.order \o SelectSeq(other.order, LAMBDA k : k \notin Range(d.order)),
     at |-> [k \in Range(d.order) \cup Range(other.order) |->
                IF k \in Range(other.order) THEN other.at[k] ELSE d.at[k]]]

\* the loop of calculate_risk that turns each bool into an int
bools_to_int(d) ==
    [d EXCEPT !.at = [k \in DOMAIN d.at |->
                         IF IsBool(d.at[k]) THEN int_of(d.at[k]) ELSE d.at[k]]]

\* full_features of calculate_risk
full_features(feature_values) ==
    bools_to_int(dict_update(get_default_values, feature_values))

\* pd.DataFrame([d]): one row, a column for each key
one_row_frame(d) == [columns |-> d.order, object |-> {}, rows |-> <<d.at>>]

\* the score read from the first class of predict_proba
risk_score_of_first_class(model, frame) ==
    IF HasAttr(model, "predict_proba")
    THEN model_predict_proba(model, frame)[1][1]
    ELSE model_predict(model, frame)[1]

\* the score the try block of calculate_risk takes from the model
risk_score_of(model, frame) ==
    IF HasAttr(model, "predict_proba")
    THEN IF Len(model_predict_proba(model, frame)[1]) > 1
         THEN model_predict_proba(model, frame)[1][2]
         ELSE model_predict_proba(model, frame)[1][1]
    ELSE model_predict(model, frame)[1]

\* the except branch: f is model_service.predict(model_name, df), and msg the
\* message of load_model when it is load_model that raises
risk_fallback(f, msg) ==
    [raised |-> f.raised, exc |-> f.exc, msg |-> IF f.raised THEN msg ELSE "",
     score |-> IF f.raised THEN 0 ELSE f.value[1],
     loaded_models |-> f.loaded_models, loaded_scalers |-> f.loaded_scalers,
     model_info |-> f.model_info]

\* the try/except of calculate_risk: m is load_model, p is preprocess_data
risk_try(m, p, lm, ls, mi, model_name, df) ==
    IF m.raised
    THEN risk_fallback(predict(lm, ls, mi, model_name, df),
                       load_model(lm, model_name).msg)
    ELSE IF (IF p.raised THEN TRUE ELSE predict_fails(m.value, p.out.value))
    THEN risk_fallback(predict(p.loaded_models, p.loaded_scalers, p.model_info,
                               model_name, df),
                       load_model(p.loaded_models, model_name).msg)
    ELSE [raised |-> FALSE, exc |-> "", msg |-> "",
          score |-> risk_score_of(m.value, p.out.value),
          loaded_models |-> p.loaded_models, loaded_scalers |-> p.loaded_scalers,
          model_info |-> p.model_info]

\* risk_level with each threshold in the level below it
risk_level_upper_inclusive(risk_score) ==
    IF risk_score <= 30 THEN "low" ELSE IF risk_score <= 70 THEN "medium" ELSE "high"

\* the if/elif/else over risk_score
risk_level(risk_score) ==
    IF risk_score < 30 THEN "low" ELSE IF risk_score < 70 THEN "medium" ELSE "high"

\* confidence without its floor
confidence_no_floor(risk_score) == Abs(risk_score - 50) * 2

\* max(abs(risk_score - 0.5) * 2, 0.6)
confidence(risk_score) ==
    IF Abs(risk_score - 50) * 2 > 60 THEN Abs(risk_score - 50) * 2 ELSE 60

\* risk_checks of _get_key_factors: the feature read, the default of get, the
\* comparison and its bound (in tenths), the factor and its impact
risk_checks ==
    << [feature |-> RF, default |-> Tenths(0, 0), test |-> "==", bound |-> 0,
        factor |-> "First-time Founder", impact |-> "medium"],
       [feature |-> "Financing for entrepreneurs", default |-> Tenths(4, 5),
        test |-> "<", bound |-> 35,
        factor |-> "Poor Access to Financing", impact |-> "high"],
       [feature |-> TR, default |-> Tenths(1, 0), test |-> "==", bound |-> 0,
        factor |-> "No Intellectual Property", impact |-> "medium"],
       [feature |-> NE, default |-> Tenths(5, 0), test |-> "<", bound |-> 30,
        factor |-> "Low Market Activity", impact |-> "medium"],
       [feature |-> "High Tech Dummy", default |-> Tenths(1, 0), test |-> "==",
        bound |-> 0, factor |-> "Non-Tech Sector", impact |-> "low"],
       [feature |-> "Governmental support and policies", default |-> Tenths(4, 0),
        test |-> "<", bound |-> 30,
        factor |-> "Poor Government Support", impact |-> "medium"],
       [feature |-> "R&D transfer", default |-> Tenths(4, 0), test |-> "<",
        bound |-> 30, factor |-> "Weak R&D Transfer", impact |-> "medium"],
       [feature |-> "Commercial and professional infrastructure",
        default |-> Tenths(5, 0), test |-> "<", bound |-> 35,
        factor |-> "Weak Infrastructure", impact |-> "high"],
       [feature |-> "Internal market dynamics", default |-> Tenths(4, 5),
        test |-> "<", bound |-> 35,
        factor |-> "Poor Market Dynamics", impact |-> "medium"] >>

\* check["condition"] on the features
condition(features, check) ==
    IF check.test = "=="
    THEN NumberOf(IF check.feature \in DOMAIN features.at
                  THEN features.at[check.feature] ELSE check.default) = check.bound
    ELSE NumberOf(IF check.feature \in DOMAIN features.at
                  THEN features.at[check.feature] ELSE check.default) < check.bound

\* impact_order.get(impact, 0)
impact_order(impact) ==
    CASE impact = "high" -> 3 [] impact = "medium" -> 2 [] impact = "low" -> 1
      [] OTHER -> 0

\* x put after the entries of s whose impact is not below its own
RECURSIVE insert_by_impact(_, _)
insert_by_impact(x, s) ==
    IF s = <<>> THEN <<x>>
    ELSE IF impact_order(s[1].impact) >= impact_order(x.impact)
    THEN <<s[1]>> \o insert_by_impact(x, Tail(s))
    ELSE <<x>> \o s

\* factors.sort(key=impact_order, reverse=True): a stable sort, equal impacts
\* stay in the order they were appended
RECURSIVE sort_by_impact(_, _)
sort_by_impact(factors, j) ==
    IF j = 0 THEN <<>>
    ELSE insert_by_impact(factors[j], sort_by_impact(factors, j - 1))

\* the factors of the checks that hold, in the order of the checks
triggered_factors(features) ==
    [j \in 1..Len(SelectSeq(risk_checks, LAMBDA c : condition(features, c))) |->
        [factor |-> SelectSeq(risk_checks, LAMBDA c : condition(features, c))[j].factor,
         impact |-> SelectSeq(risk_checks, LAMBDA c : condition(features, c))[j].impact]]

\* _get_key_factors without its sort
get_key_factors_unsorted(features) ==
    SubSeq(triggered_factors(features), 1,
           IF Len(triggered_factors(features)) < 5
           THEN Len(triggered_factors(features)) ELSE 5)

\* RiskService._get_key_factors
get_key_factors(features) ==
    SubSeq(sort_by_impact(triggered_factors(features), Len(triggered_factors(features))),
           1,
           IF Len(triggered_factors(features)) < 5
           THEN Len(triggered_factors(features)) ELSE 5)

\* calculate_risk that reports key factors only for a score in the high band
risk_result_factors_by_score(full, t) ==
    [raised |-> t.raised, exc |-> t.exc, msg |-> t.msg,
     value |-> IF t.raised THEN None
               ELSE [keys |-> {"risk_score", "risk_level", "confidence", "key_factors"},
                     risk_score |-> t.score,
                     risk_level |-> risk_level(t.score),
                     confidence |-> confidence(t.score),
                     key_factors |-> IF t.score >= 70 THEN get_key_factors(full)
                                     ELSE <<>>],
     features |-> full,
     loaded_models |-> t.loaded_models, loaded_scalers |-> t.loaded_scalers,
     model_info |-> t.model_info]

\* calculate_risk from the outcome t of its try/except
risk_result(full, t) ==
    [raised |-> t.raised, exc |-> t.exc, msg |-> t.msg,
     value |-> IF t.raised THEN None
               ELSE [keys |-> {"risk_score", "risk_level", "confidence", "key_factors"},
                     risk_score |-> t.score,
                     risk_level |-> risk_level(t.score),
                     confidence |-> confidence(t.score),
                     key_factors |-> get_key_factors(full)],
     features |-> full,
     loaded_models |-> t.loaded_models, loaded_scalers |-> t.loaded_scalers,
     model_info |-> t.model_info]

\* calculate_risk on the frame df of the features full
risk_of_frame(lm, ls, mi, full, df, model_name) ==
    risk_result(full,
                risk_try(load_model(lm, model_name),
                         preprocess_data(load_model(lm, model_name).loaded_models,
                                         ls, mi, df, model_name),
                         lm, ls, mi, model_name, df))

\* RiskService.calculate_risk on the store (lm, ls, mi) of its model service
calculate_risk(lm, ls, mi, feature_values, model_name) ==
    risk_of_frame(lm, ls, mi, full_features(feature_values),
                  one_row_frame(full_features(feature_values)), model_name)

----------------------------------------------------------------------------
(* The state machine.  ret and prev observe the calls made since the       *)
(* models directory last changed: a change of the directory clears them.   *)

NoCall ==
    [op |-> "none", name |-> NoName, raised |-> FALSE, exc |-> "", msg |-> "",
     status |-> 0, value |-> None, opened |-> FALSE, out |-> None,
     models_before |-> <<>>, info_before |-> None, scalers_before |-> None, at |-> 0]

\* ModelService.__init__
NewStore ==
    /\ loaded_models = <<>>
    /\ loaded_scalers = [keys |-> {}]
    /\ model_info = None

EmptyDirectory ==
    /\ model_files = [s \in ModelStems |-> Absent]
    /\ scaler_file = Absent
    /\ info_file = Absent

\* a model file is written, replaced or deleted (the training job, a copy, rm)
WriteModelFile(stem, content) ==
    /\ model_files[stem] # content
    /\ model_files' = [model_files EXCEPT ![stem] = content]
    /\ UNCHANGED <<scaler_file, info_file, loaded_models, loaded_scalers, model_info,
                   clock, table>>

WriteScalerFile(content) ==
    /\ scaler_file # content
    /\ scaler_file' = content
    /\ UNCHANGED <<model_files, info_file, loaded_models, loaded_scalers, model_info,
                   clock, table>>

WriteInfoFile(content) ==
    /\ info_file # content
    /\ info_file' = content
    /\ UNCHANGED <<model_files, scaler_file, loaded_models, loaded_scalers, model_info,
                   clock, table>>

\* the training job run on data with the given columns: without the target
\* column it raises before it writes anything
TrainModels(columns) ==
    /\ IF Target \in columns
       THEN /\ model_files' = [s \in ModelStems |->
                                  IF s \in TrainedStems
                                  THEN File(train_estimator(columns, s))
                                  ELSE model_files[s]]
            /\ scaler_file' = File(train_scaler(columns))
            /\ info_file' = File(train_model_info(columns))
       ELSE UNCHANGED <<model_files, scaler_file, info_file>>
    /\ UNCHANGED <<loaded_models, loaded_scalers, model_info, clock, table>>

\* the threads of concurrent load_model calls
Threads == 1..MaxThreads

IdleCall == [pc |-> "idle", name |-> NoName, model |-> None, result |-> None]

\* no load_model call is in progress
NoThreads == calls = [t \in Threads |-> IdleCall]

\* the call just made is the last call; Next says what becomes of prev.  A
\* call made alone runs from its start to its end: no thread moves meanwhile
Observe(call) == ret' = call /\ UNCHANGED calls

Forget == ret' = NoCall /\ prev' = NoCall /\ UNCHANGED calls

Before ==
    [NoCall EXCEPT !.models_before = loaded_models, !.info_before = model_info,
                   !.scalers_before = loaded_scalers, !.at = clock]

LoadModelCall(r, model_name) ==
    /\ loaded_models' = r.loaded_models
    /\ Observe([Before EXCEPT !.op = "load_model", !.name = model_name,
                              !.raised = r.raised, !.exc = r.exc, !.msg = r.msg,
                              !.value = r.value, !.opened = r.opened])
    /\ UNCHANGED <<model_files, scaler_file, info_file, loaded_scalers, model_info,
                   clock, table>>

\* a call of model_service.load_model(model_name)
LoadModel(model_name) == LoadModelCall(load_model(loaded_models, model_name), model_name)

LoadModelInfoCall(r) ==
    /\ model_info' = r.model_info
    /\ Observe([Before EXCEPT !.op = "load_model_info", !.raised = r.raised,
                              !.exc = r.exc, !.value = r.value])
    /\ UNCHANGED <<model_files, scaler_file, info_file, loaded_models, loaded_scalers,
                   clock, table>>

\* a call of model_service.load_model_info()
LoadModelInfo == LoadModelInfoCall(load_model_info(model_info))

LoadScalerCall(r) ==
    /\ loaded_scalers' = r.loaded_scalers
    /\ Observe([Before EXCEPT !.op = "load_scaler", !.raised = r.raised,
                              !.exc = r.exc, !.value = r.value])
    /\ UNCHANGED <<model_files, scaler_file, info_file, loaded_models, model_info,
                   clock, table>>

\* a call of model_service.load_scaler()
LoadScaler == LoadScalerCall(load_scaler(loaded_scalers))

GetAvailableModelsCall(r) ==
    /\ Observe([Before EXCEPT !.op = "get_available_models", !.raised = r.raised,
                              !.exc = r.exc, !.value = r.value])
    /\ UNCHANGED <<model_files, scaler_file, info_file, loaded_models,
                   loaded_scalers, model_info, clock, table>>

\* a call of model_service.get_available_models()
GetAvailableModels ==
    \E order \in GlobOrders : GetAvailableModelsCall(get_available_models(order))

PreprocessDataCall(r, model_name) ==
    /\ loaded_models' = r.loaded_models
    /\ loaded_scalers' = r.loaded_scalers
    /\ model_info' = r.model_info
    /\ Observe([Before EXCEPT !.op = "preprocess_data", !.name = model_name,
                              !.raised = r.raised, !.exc = r.exc,
                              !.value = r.out.value,
                              !.out = [resolved |-> r.resolved, path |-> r.out.path,
                                       predictors |-> r.out.predictors,
                                       scale_features |-> r.out.scale_features,
                                       scaled |-> r.out.scaled,
                                       attempted |-> r.out.attempted]])
    /\ table' = df_after_preprocess(table, r)
    /\ UNCHANGED <<model_files, scaler_file, info_file, clock>>

\* a call of model_service.preprocess_data(table, model_name)
PreprocessData(model_name) ==
    PreprocessDataCall(preprocess_data(loaded_models, loaded_scalers, model_info, table,
                                       model_name),
                       model_name)

\* what the client uploads to POST /api/analyze-csv
Uploads == {"csv", "no filename", "not .csv", "not utf-8", "empty", "malformed"}

HttpAnalyzeCsvCall(r, model_name) ==
    /\ loaded_models' = r.loaded_models
    /\ loaded_scalers' = r.loaded_scalers
    /\ model_info' = r.model_info
    /\ Observe([Before EXCEPT !.op = "POST analyze-csv", !.name = model_name,
                              !.raised = r.raised,
                              !.exc = IF r.raised THEN "HTTPException" ELSE "",
                              !.msg = r.exc,
                              !.status = IF r.raised THEN http_status(r.exc) ELSE 200,
                              !.value = r.value])
    /\ UNCHANGED <<model_files, scaler_file, info_file, clock, table>>

\* the analyze_csv handler of main.py: the upload is validated and parsed into
\* the table, the service is called, its exceptions become HTTP errors
HttpAnalyzeCsv(upload, model_name) ==
    IF upload # "csv"
    THEN /\ Observe([Before EXCEPT !.op = "POST analyze-csv", !.raised = TRUE,
                                   !.exc = "HTTPException", !.msg = upload,
                                   !.status = 400])
         /\ UNCHANGED <<model_files, scaler_file, info_file, loaded_models,
                        loaded_scalers, model_info, clock, table>>
    ELSE HttpAnalyzeCsvCall(analyze_csv(loaded_models, loaded_scalers, model_info, table,
                                        model_name, clock),
                            model_name)

AnalyzeCsvCall(r, model_name) ==
    /\ loaded_models' = r.loaded_models
    /\ loaded_scalers' = r.loaded_scalers
    /\ model_info' = r.model_info
    /\ Observe([Before EXCEPT !.op = "analyze_csv", !.name = model_name,
                              !.raised = r.raised, !.exc = r.exc, !.value = r.value])
    /\ table' = df_after_predict(loaded_models, loaded_scalers, model_info, table,
                                 model_name)
    /\ UNCHANGED <<model_files, scaler_file, info_file, clock>>

\* a call of analysis_service.analyze_csv(table, model_name)
AnalyzeCsv(model_name) ==
    AnalyzeCsvCall(analyze_csv(loaded_models, loaded_scalers, model_info, table,
                               model_name, clock),
                   model_name)

CalculateRiskCall(r, feature_values, model_name) ==
    /\ loaded_models' = r.loaded_models
    /\ loaded_scalers' = r.loaded_scalers
    /\ model_info' = r.model_info
    /\ Observe([Before EXCEPT !.op = "calculate_risk", !.name = model_name,
                              !.raised = r.raised, !.exc = r.exc, !.msg = r.msg,
                              !.value = r.value,
                              !.out = [keys |-> {"feature_values", "full_features"},
                                       feature_values |-> feature_values,
                                       full_features |-> r.features]])
    /\ UNCHANGED <<model_files, scaler_file, info_file, clock, table>>

\* a call of risk_service.calculate_risk(feature_values, model_name), on the
\* store of the model service the risk service owns
CalculateRisk(feature_values, model_name) ==
    CalculateRiskCall(calculate_risk(loaded_models, loaded_scalers, model_info,
                                     feature_values, model_name),
                      feature_values, model_name)

\* load_model run by a thread, one statement at a time.  A thread keeps its
\* position pc, the name it was called with, its local `model` and, at the
\* end, what the call returned or raised.
Step(t, call) ==
    /\ calls' = [calls EXCEPT ![t] = call]
    /\ UNCHANGED <<model_files, scaler_file, info_file, loaded_scalers, model_info,
                   clock, table, ret, prev>>

Returned(value) == [raised |-> FALSE, exc |-> "", msg |-> "", value |-> value]

Raised(exc, msg) == [raised |-> TRUE, exc |-> exc, msg |-> msg, value |-> None]

\* a thread calls load_model(model_name)
BeginLoad(t, model_name) ==
    /\ calls[t].pc = "idle"
    /\ Step(t, [calls[t] EXCEPT !.pc = "lookup", !.name = model_name])
    /\ UNCHANGED loaded_models

\* if model_name in self.loaded_models
LookupCache(t) ==
    /\ calls[t].pc = "lookup"
    /\ Step(t, [calls[t] EXCEPT
                   !.pc = IF calls[t].name \in DOMAIN loaded_models
                          THEN "cached" ELSE "exists"])
    /\ UNCHANGED loaded_models

\* return self.loaded_models[model_name]
ReturnCached(t) ==
    /\ calls[t].pc = "cached"
    /\ Step(t, [calls[t] EXCEPT !.pc = "done",
                                !.result = Returned(loaded_models[calls[t].name])])
    /\ UNCHANGED loaded_models

\* if not model_path.exists(): raise FileNotFoundError
CheckExists(t) ==
    /\ calls[t].pc = "exists"
    /\ Step(t, IF FileAt(calls[t].name).exists
               THEN [calls[t] EXCEPT !.pc = "unpickle"]
               ELSE [calls[t] EXCEPT !.pc = "done",
                                     !.result = Raised("FileNotFoundError", "not found")])
    /\ UNCHANGED loaded_models

\* model = pickle.load(f), and the except clause around it
Unpickle(t) ==
    /\ calls[t].pc = "unpickle"
    /\ Step(t, IF FileAt(calls[t].name).pickle = "ok"
               THEN [calls[t] EXCEPT !.pc = "store", !.model = FileAt(calls[t].name).obj]
               ELSE IF FileAt(calls[t].name).pickle \in CaughtKinds
               THEN [calls[t] EXCEPT !.pc = "done",
                                     !.result = Raised("FileNotFoundError", "corrupted")]
               ELSE [calls[t] EXCEPT !.pc = "done",
                                     !.result = Raised(FileAt(calls[t].name).pickle, "")])
    /\ UNCHANGED loaded_models

\* the entry load_model puts in the cache before the file is read
store_placeholder(lm, name, model) == (name :> None) @@ lm

\* self.loaded_models[model_name] = model
store_entry(lm, name, model) == (name :> model) @@ lm

StoreModel(t) ==
    /\ calls[t].pc = "store"
    /\ loaded_models' = store_entry(loaded_models, calls[t].name, calls[t].model)
    /\ Step(t, [calls[t] EXCEPT !.pc = "return"])

\* return model
ReturnLoaded(t) ==
    /\ calls[t].pc = "return"
    /\ Step(t, [calls[t] EXCEPT !.pc = "done", !.result = Returned(calls[t].model)])
    /\ UNCHANGED loaded_models

\* time passes
Tick ==
    /\ clock < MaxClock
    /\ clock' = clock + 1
    /\ UNCHANGED <<model_files, scaler_file, info_file, loaded_models, loaded_scalers,
                   model_info, table, ret, calls>>

----------------------------------------------------------------------------
(* Spec: one store, a models directory that changes under it.              *)

SpecStems == {RfName, XgbName, Scaler2Name}

SpecContents(stem) ==
    IF stem = RfName
    THEN {Absent, File(PlainModel), File(NamedModel), Broken("EOFError"),
          Broken("AttributeError")}
    ELSE IF stem = XgbName
    THEN {Absent, File(BoosterModel), Broken("ValueError")}
    ELSE {Absent, File(PlainModel), Broken("UnpicklingError")}

\* a table with the training columns
SmallTable ==
    [columns |-> <<RF, TR, NE>>, object |-> {},
     rows |-> <<[c \in {RF, TR, NE} |-> Num(1)]>>]

Init ==
    /\ EmptyDirectory
    /\ NewStore
    /\ clock = 0
    /\ table = SmallTable
    /\ ret = NoCall
    /\ prev = NoCall
    /\ NoThreads

Next ==
    \/ \E stem \in SpecStems : \E content \in SpecContents(stem) :
          WriteModelFile(stem, content) /\ Forget
    \/ \E model_name \in SpecStems : LoadModel(model_name) /\ UNCHANGED prev
    \/ GetAvailableModels /\ UNCHANGED prev
    \/ \E upload \in Uploads, model_name \in {RfName, XgbName} :
          HttpAnalyzeCsv(upload, model_name) /\ UNCHANGED prev

Spec == Init /\ [][Next]_vars

----------------------------------------------------------------------------
(* SpecMeta: one store, the scaler and metadata files change under it.     *)

NextMeta ==
    \/ \E content \in {Absent, File(TrainedInfo), Broken("EOFError")} :
          WriteInfoFile(content) /\ Forget
    \/ \E content \in {Absent, File(TrainedScaler), Broken("EOFError")} :
          WriteScalerFile(content) /\ Forget
    \/ LoadModelInfo /\ UNCHANGED prev
    \/ LoadScaler /\ UNCHANGED prev
    \/ PreprocessData(NoName) /\ UNCHANGED prev

SpecMeta == Init /\ [][NextMeta]_vars

----------------------------------------------------------------------------
(* SpecFrame: preprocess_data called once, on a fresh store, for every     *)
(* table, model file, metadata file and scaler file of the bounded sets;   *)
(* a table has no rows or MaxRows rows.                                    *)

Pool == {TR, NE, RF, Company, Revenue}

ColNo(c) ==
    CASE c = TR -> 1 [] c = NE -> 2 [] c = RF -> 3 [] c = Company -> 4 [] OTHER -> 5

\* the table with the columns cols and n rows, whose cells in nan are missing;
\* every other cell holds a value that tells its row and its column
MakeTable(cols, n, nan) ==
    [columns |-> cols,
     object |-> Range(cols) \cap {Company},
     rows |-> [i \in 1..n |->
                 [c \in Range(cols) |->
                     IF <<i, c>> \in nan THEN NaN ELSE Num(10 * i + ColNo(c))]]]

NanMasks(cols, n) ==
    {nan \in SUBSET ((1..n) \X Range(cols)) : Cardinality(nan) <= MaxNaN}

\* the tables of up to MaxCols columns whose number of rows is in counts
TablesOf(counts) ==
    UNION {UNION {{MakeTable(cols, n, nan) : nan \in NanMasks(cols, n)} :
                     n \in counts} :
              cols \in DistinctSeqs(Pool, MaxCols)}

Tables == TablesOf({0, MaxRows})

FrameStems == {XgbName, XgboostName}

FrameContents ==
    {Absent, File(PlainModel), File(NamedModel), File(BoosterModel),
     File(BareBoosterModel), Broken("EOFError")}

InitFrame ==
    /\ \E stem \in FrameStems, content \in FrameContents :
          model_files = [s \in ModelStems |-> IF s = stem THEN content ELSE Absent]
    /\ scaler_file \in {Absent, File(TrainedScaler)}
    /\ info_file \in {Absent, File(TrainedInfo)}
    /\ NewStore
    /\ clock = 0
    /\ table \in Tables
    /\ ret = NoCall
    /\ prev = NoCall
    /\ NoThreads

\* the model named is one whose file is in the directory, or none; with no
\* file in the directory, any name
NextFrame ==
    \E model_name \in FrameStems \cup {NoName} :
        /\ ret.op = "none"
        /\ IF model_name = NoName THEN TRUE
           ELSE FileAt(model_name).exists \/ \A s \in FrameStems : ~FileAt(s).exists
        /\ PreprocessData(model_name)
        /\ UNCHANGED prev

SpecFrame == InitFrame /\ [][NextFrame]_vars

----------------------------------------------------------------------------
(* SpecBatch: analyze_csv called once, on a fresh store, for every table   *)
(* of up to MaxRows rows and for the model, metadata and scaler files of   *)
(* the bounded sets.                                                       *)

BatchStems == {RfName, XgboostName}

BatchContents(stem) ==
    IF stem = RfName
    THEN {File(TrainedModel), File(NamedModel), File(PlainModel)}
    ELSE {File(BoosterModel)}

InitBatch ==
    /\ \E stem \in BatchStems : \E content \in BatchContents(stem) :
          model_files = [s \in ModelStems |-> IF s = stem THEN content ELSE Absent]
    /\ scaler_file \in {Absent, File(TrainedScaler)}
    /\ info_file \in {Absent, File(TrainedInfo)}
    /\ NewStore
    /\ clock = 0
    /\ table \in TablesOf(0..MaxRows)
    /\ ret = NoCall
    /\ prev = NoCall
    /\ NoThreads

NextBatch ==
    \E model_name \in BatchStems :
        /\ ret.op = "none"
        /\ FileAt(model_name).exists
        /\ AnalyzeCsv(model_name)
        /\ UNCHANGED prev

SpecBatch == InitBatch /\ [][NextBatch]_vars

----------------------------------------------------------------------------
(* SpecSegment: one analyze_csv call on a batch of up to MaxBatch rows     *)
(* whose predictions can tie: a model fitted on <<NE, TR>> scores a row    *)
(* NE + 2 * TR, and each cell is 0 or 1.                                   *)

MaxBatch == 4

SegmentTables ==
    UNION {{[columns |-> <<NE, TR>>, object |-> {}, rows |-> rows] :
               rows \in [1..n -> [{NE, TR} -> {Num(0), Num(1)}]]} :
           n \in 0..MaxBatch}

InitSegment ==
    /\ model_files = [s \in ModelStems |-> IF s = RfName THEN File(NamedModel) ELSE Absent]
    /\ scaler_file = Absent
    /\ info_file = Absent
    /\ NewStore
    /\ clock = 0
    /\ table \in SegmentTables
    /\ ret = NoCall
    /\ prev = NoCall
    /\ NoThreads

NextSegment ==
    /\ ret.op = "none"
    /\ AnalyzeCsv(RfName)
    /\ UNCHANGED prev

SpecSegment == InitSegment /\ [][NextSegment]_vars

----------------------------------------------------------------------------
(* SpecLoad: the threads call load_model on one fresh store, each once,    *)
(* any of them for the same name, their statements interleaved in every    *)
(* order; the files do not change meanwhile.                               *)

LoadStems == {RfName, XgbName}

InitLoad ==
    /\ \E rf \in {Absent, File(PlainModel), Broken("EOFError"), Broken("AttributeError")},
          xgb \in {Absent, File(BoosterModel)} :
          model_files = [s \in ModelStems |->
                            IF s = RfName THEN rf ELSE IF s = XgbName THEN xgb ELSE Absent]
    /\ scaler_file = Absent
    /\ info_file = Absent
    /\ NewStore
    /\ clock = 0
    /\ table = SmallTable
    /\ ret = NoCall
    /\ prev = NoCall
    /\ NoThreads

NextLoad ==
    \/ \E t \in Threads, model_name \in LoadStems : BeginLoad(t, model_name)
    \/ \E t \in Threads : LookupCache(t)
    \/ \E t \in Threads : ReturnCached(t)
    \/ \E t \in Threads : CheckExists(t)
    \/ \E t \in Threads : Unpickle(t)
    \/ \E t \in Threads : StoreModel(t)
    \/ \E t \in Threads : ReturnLoaded(t)

SpecLoad == InitLoad /\ [][NextLoad]_vars

----------------------------------------------------------------------------
(* SpecTrain: one store, and the training job run under it on data that    *)
(* lacks some of the predictors; the table scored is the one-row frame of  *)
(* the schema defaults.                                                    *)

TrainColumns == Range(TrainPredictors) \cup {Target}

Droppable == {"Number of Investors", TR, RF, Target}

InitTrain ==
    /\ EmptyDirectory
    /\ NewStore
    /\ clock = 0
    /\ table = one_row_frame(full_features(EmptyDict))
    /\ ret = NoCall
    /\ prev = NoCall
    /\ NoThreads

NextTrain ==
    \/ \E dropped \in SUBSET Droppable : TrainModels(TrainColumns \ dropped) /\ Forget
    \/ LoadModelInfo /\ UNCHANGED prev
    \/ LoadScaler /\ UNCHANGED prev
    \/ \E model_name \in {NoName, ForestName} : PreprocessData(model_name) /\ UNCHANGED prev

SpecTrain == InitTrain /\ [][NextTrain]_vars

----------------------------------------------------------------------------
(* SpecRetry: load_model called again and again on one store while the     *)
(* files of the directory are written, broken and removed.  prev is the    *)
(* last load_model call that failed before the call just made.             *)

RetryStems == {RfName, XgbName}

RetryContents(stem) ==
    IF stem = RfName
    THEN {Absent, File(PlainModel), File(NamedModel), Broken("EOFError"),
          Broken("AttributeError")}
    ELSE {Absent, File(BoosterModel), Broken("ValueError")}

FailedLoad(call) == call.op = "load_model" /\ call.raised

RememberFailure == prev' = IF FailedLoad(ret) THEN ret ELSE prev

NextRetry ==
    \/ \E stem \in RetryStems : \E content \in RetryContents(stem) :
          /\ WriteModelFile(stem, content)
          /\ Observe(NoCall)
          /\ RememberFailure
    \/ \E model_name \in RetryStems : LoadModel(model_name) /\ RememberFailure

SpecRetry == Init /\ [][NextRetry]_vars

----------------------------------------------------------------------------
(* SpecRisk: one calculate_risk call on a fresh risk service.  The model   *)
(* file holds an estimator of the schema's 20 features or of the trained   *)
(* metadata's 3, a classifier or a regressor, or is missing or corrupted;  *)
(* the caller gives any of its features, and one the schema does not have. *)

RiskStems == {RfName}

SchemaSize == Len(FeatureDefinitions)

RiskContents ==
    {File(Classifier(SchemaSize, <<0, 100>>, <<100 - p, p>>)) :
        p \in {0, 29, 30, 50, 69, 70, 100}}
    \cup {File(Classifier(SchemaSize, <<100>>, <<100>>)),
          File(Classifier(Len(TrainedInfo.predictors), <<0, 100>>, <<70, 30>>))}
    \cup {File(Regressor(SchemaSize, v)) : v \in {0 - 20, 50, 100, 170}}
    \cup {Absent, Broken("EOFError")}

\* the features a caller gives, in the order it gives them, and the values
\* it gives each
CallerKeys ==
    <<RF, "Financing for entrepreneurs", TR, NE, "High Tech Dummy",
      "Governmental support and policies", "R&D transfer",
      "Commercial and professional infrastructure", "Internal market dynamics",
      "Number of Investors">>

CallerValues(k) ==
    CASE k = RF -> {Bool(TRUE), Bool(FALSE)}
      [] k = "Financing for entrepreneurs" -> {Tenths(3, 0), Tenths(3, 5)}
      [] k = TR -> {Tenths(0, 0)}
      [] k = NE -> {Tenths(2, 0)}
      [] k = "High Tech Dummy" -> {Bool(FALSE)}
      [] k = "Governmental support and policies" -> {Tenths(2, 5)}
      [] k = "R&D transfer" -> {Tenths(2, 5)}
      [] k = "Commercial and professional infrastructure" -> {Tenths(3, 0)}
      [] k = "Internal market dynamics" -> {Tenths(3, 0)}
      [] OTHER -> {Tenths(3, 0)}

\* the dicts over CallerKeys[j..]: each key left out or given one of its values
RECURSIVE FeatureMapsFrom(_)
FeatureMapsFrom(j) ==
    IF j > Len(CallerKeys) THEN {EmptyDict}
    ELSE FeatureMapsFrom(j + 1)
         \cup {[order |-> <<CallerKeys[j]>> \o d.order,
                at |-> (CallerKeys[j] :> v) @@ d.at] :
                   v \in CallerValues(CallerKeys[j]), d \in FeatureMapsFrom(j + 1)}

FeatureMaps == FeatureMapsFrom(1)

InitRisk ==
    /\ \E content \in RiskContents :
           model_files = [s \in ModelStems |-> IF s = RfName THEN content ELSE Absent]
    /\ \E i \in {Absent, File(TrainedInfo)}, s \in {Absent, File(TrainedScaler)} :
           info_file = i /\ scaler_file = s
    /\ NewStore
    /\ clock = 0
    /\ table = MakeTable(<<>>, 0, {})
    /\ ret = NoCall
    /\ prev = NoCall
    /\ NoThreads

NextRisk ==
    \E feature_values \in FeatureMaps, model_name \in RiskStems :
        /\ ret.op = "none"
        /\ CalculateRisk(feature_values, model_name)
        /\ UNCHANGED prev

SpecRisk == InitRisk /\ [][NextRisk]_vars

----------------------------------------------------------------------------
(* SpecDet: one store and one table; the scoring calls are repeated while   *)
(* time passes and the caches fill.  prev is the scoring call made before  *)
(* the last call, with the same files in the directory.                    *)

Scoring(call) == call.op \in {"preprocess_data", "analyze_csv"}

\* what is kept of a scoring call: the call, its result and whether the model
\* cache was empty
Kept(call) ==
    [call EXCEPT !.info_before = None, !.scalers_before = None, !.at = 0,
                 !.out = None]

Remember == prev' = IF Scoring(ret) THEN Kept(ret) ELSE prev

NextDet ==
    \/ \E content \in {Absent, File(PlainModel), File(NamedModel)} :
          WriteModelFile(RfName, content) /\ Forget
    \/ \E content \in {Absent, File(TrainedScaler)} : WriteScalerFile(content) /\ Forget
    \/ \E content \in {Absent, File(TrainedInfo)} : WriteInfoFile(content) /\ Forget
    \/ LoadModel(RfName) /\ Remember
    \/ LoadModelInfo /\ Remember
    \/ LoadScaler /\ Remember
    \/ \E model_name \in {RfName, NoName} : PreprocessData(model_name) /\ Remember
    \/ AnalyzeCsv(RfName) /\ Remember
    \/ Tick /\ UNCHANGED prev

SpecDet == Init /\ [][NextDet]_vars

----------------------------------------------------------------------------
(* The claims about the artifact store.                                    *)

LastLoadRead(model_name) ==
    /\ ret.op = "load_model"
    /\ ret.name = model_name
    /\ model_name \notin DOMAIN ret.models_before

\* C1: load_model fails with the not-found kind when the file of the name is
\* missing, and with another kind, which the HTTP layer does not answer 404,
\* when the file exists but cannot be deserialized.
C1_DistinctErrorKinds ==
    /\ \A n \in SpecStems :
          LastLoadRead(n) =>
              /\ ~FileAt(n).exists => ret.raised /\ ret.exc = "FileNotFoundError"
              /\ FileAt(n).exists /\ FileAt(n).pickle # "ok" =>
                    ret.raised /\ ret.exc # "FileNotFoundError"
    /\ \A n \in SpecStems :
          /\ ret.op = "POST analyze-csv"
          /\ ret.name = n
          /\ n \notin DOMAIN ret.models_before
          /\ FileAt(n).exists
          /\ FileAt(n).pickle # "ok"
          => ret.status >= 500

\* the model files the listing should name: the files of the directory, other
\* than those in `reserved`, that unpickle
Loadable(reserved) ==
    {s \in GlobStems \ reserved : FileAt(s).pickle = "ok"}

\* C2: get_available_models never raises, whatever makes a model file fail to
\* unpickle, and it returns every model that does unpickle.
C2_ListingSurvivesAnyFailure ==
    ret.op = "get_available_models" =>
        /\ ~ret.raised
        /\ Loadable({s \in GlobStems : IsReserved(s)}) \subseteq Range(ret.value)

\* C3: a listing that returns names every file that unpickles, except the two
\* reserved files scaler.pkl and model_info.pkl.
C3_OnlyReservedExcluded ==
    ret.op = "get_available_models" /\ ~ret.raised =>
        Range(ret.value) = Loadable({ScalerStem, InfoStem})

\* C4: an entry of the model cache never changes and is never removed, and a
\* load_model of a cached name returns the entry without opening the file.
C4_CacheAppendOnly ==
    /\ [][\A n \in DOMAIN loaded_models :
              n \in DOMAIN loaded_models' /\ loaded_models'[n] = loaded_models[n]]_vars
    /\ [](ret.op = "load_model" /\ ret.name \in DOMAIN ret.models_before =>
              /\ ~ret.raised
              /\ ret.value = ret.models_before[ret.name]
              /\ loaded_models[ret.name] = ret.value
              /\ ~ret.opened)

\* a cached model is returned although its file has since been replaced or deleted
C4_Witness ==
    /\ ret.op = "load_model"
    /\ ret.name \in DOMAIN ret.models_before
    /\ \E n \in DOMAIN loaded_models : ~FileAt(n).exists
    /\ FileAt(ret.name).exists
    /\ FileAt(ret.name).obj # ret.value

\* C5: load_model_info with no metadata file returns the built-in metadata,
\* whose predictors are not empty, and does not raise; once metadata is cached
\* every call returns it.
C5_DefaultMetadata ==
    /\ [](ret.op = "load_model_info" /\ ret.info_before = None /\ ~info_file.exists =>
              /\ ~ret.raised
              /\ ret.value = DefaultInfo
              /\ Len(Get(ret.value, "predictors", <<>>)) > 0
              /\ model_info = ret.value)
    /\ [](ret.op = "load_model_info" /\ ret.info_before # None =>
              ~ret.raised /\ ret.value = ret.info_before /\ model_info = ret.value)
    /\ [][model_info # None => model_info' = model_info]_vars

\* the default metadata is returned from the cache although a metadata file
\* has been written since
C5_Witness ==
    /\ ret.op = "load_model_info"
    /\ ret.info_before = DefaultInfo
    /\ ret.value = DefaultInfo
    /\ info_file.exists

----------------------------------------------------------------------------
(* The claims about preprocess_data.                                       *)

Preprocessed == ret.op = "preprocess_data" /\ ~ret.raised

\* the model the call loaded, None when it named none or the load failed
LoadedModel ==
    IF ret.name # NoName /\ ret.name \in DOMAIN loaded_models
    THEN loaded_models[ret.name]
    ELSE None

\* the feature names a model declares, by feature_names_in_ or on its booster
DeclaredNames(model) ==
    IF model = None THEN <<>>
    ELSE IF HasAttr(model, "feature_names_in_") THEN model.feature_names_in_
    ELSE IF HasAttr(model, "get_booster") THEN model.booster_feature_names
    ELSE <<>>

\* C6: the predictors are the names the loaded model declares, whatever the
\* model is called, and the metadata's predictors only when it declares none.
C6_ModelOrderFirst ==
    Preprocessed =>
        /\ DeclaredNames(LoadedModel) # <<>> => ret.out.resolved = DeclaredNames(LoadedModel)
        /\ DeclaredNames(LoadedModel) = <<>> =>
              ret.out.resolved = Get(model_info, "predictors", <<>>)
        /\ ret.out.path = "predictors" =>
              \A a, b \in DOMAIN ret.value.columns :
                  a < b => IndexOf(ret.out.resolved, ret.value.columns[a])
                              < IndexOf(ret.out.resolved, ret.value.columns[b])

SomePredictorPresent == Range(ret.out.resolved) \cap Range(table.columns) # {}

Filled(cell) == IF cell = NaN THEN Num(0) ELSE cell

\* the cell of column c the frame must hold for the input cell: filled, and
\* moved by the scaler's mean of c when the frame was scaled and c is scaled
ExpectedCell(cell, c) ==
    IF ret.out.scaled /\ c \in Range(ret.out.scale_features)
    THEN Num(Filled(cell)[1]
             - loaded_scalers.scaler.mean_[IndexOf(loaded_scalers.scaler.features, c)])
    ELSE Filled(cell)

\* C7: with a predictor present, the frame's columns are the predictors the
\* table has, in the order of the predictor list, and its rows are the
\* table's rows in the table's order.
C7_ExactColumns ==
    Preprocessed /\ SomePredictorPresent =>
        LET cols == ret.value.columns
        IN  /\ Range(cols) = Range(ret.out.resolved) \cap Range(table.columns)
            /\ Cardinality(Range(cols)) = Len(cols)
            /\ \A a, b \in DOMAIN cols :
                  a < b => IndexOf(ret.out.resolved, cols[a])
                              < IndexOf(ret.out.resolved, cols[b])
            /\ DOMAIN ret.value.rows = DOMAIN table.rows
            /\ \A i \in DOMAIN table.rows :
                  /\ DOMAIN ret.value.rows[i] = Range(cols)
                  /\ \A c \in Range(cols) :
                        ret.value.rows[i][c] = ExpectedCell(table.rows[i][c], c)

\* two rows, two predictors in an order that is not the table's, and a column
\* of the table that is no predictor
C7_Witness ==
    /\ Preprocessed
    /\ SomePredictorPresent
    /\ Len(table.rows) = 2
    /\ Len(ret.value.columns) = 2
    /\ Len(table.columns) = 3
    /\ \E a, b \in DOMAIN table.columns :
          /\ a < b
          /\ table.columns[a] = ret.value.columns[2]
          /\ table.columns[b] = ret.value.columns[1]

\* C8: no frame preprocess_data returns has a missing value: a cell missing
\* in the table is 0 in the frame.
C8_NoMissingValues ==
    Preprocessed =>
        \A i \in DOMAIN ret.value.rows : \A c \in Range(ret.value.columns) :
            /\ ret.value.rows[i][c] # NaN
            /\ table.rows[i][c] = NaN => ret.value.rows[i][c] = Num(0)

\* the scale_features of the call: the metadata's, cut down to the table's
\* columns when a predictor is missing from the table
ScaleFeaturesInEffect ==
    IF Range(ret.out.resolved) \subseteq Range(table.columns)
    THEN Get(model_info, "scale_features", <<>>)
    ELSE SelectSeq(Get(model_info, "scale_features", <<>>),
                   LAMBDA c : c \in Range(table.columns))

ScalingCase ==
    /\ ret.op = "preprocess_data"
    /\ "scaler" \in loaded_scalers.keys
    /\ loaded_scalers.scaler # None
    /\ SomePredictorPresent
    /\ ScaleFeaturesInEffect # <<>>

----------------------------------------------------------------------------
(* The claim about repeated calls.                                         *)

\* the last call repeats the scoring call before it
Repeated ==
    /\ Scoring(ret)
    /\ prev.op = ret.op
    /\ prev.name = ret.name

----------------------------------------------------------------------------
(* The claims about analyze_csv on one table.                              *)

\* analyze_csv was called, its model loaded and the metadata was read
Analyzed ==
    /\ ret.op = "analyze_csv"
    /\ ret.name \in DOMAIN loaded_models
    /\ model_info # None

\* the predictors the call resolved
RequiredPredictors == model_predictors(loaded_models[ret.name], ret.name, model_info)

\* C11: a table with rows that has some of the predictors the model was
\* fitted on, not all of them, is scored on those it has: analyze_csv does
\* not raise and returns one prediction for each row.
C11_PartialFeaturesScored ==
    /\ Analyzed
    /\ loaded_models[ret.name].n_features_in_ = Len(RequiredPredictors)
    /\ Len(table.rows) > 0
    /\ \E c \in Range(RequiredPredictors) : c \in Range(table.columns)
    /\ \E c \in Range(RequiredPredictors) : c \notin Range(table.columns)
    => /\ ~ret.raised
       /\ Len(ret.value.predictions) = Len(table.rows)

\* the predictions the model made for the table of the call, when it made them
Predicted == predict(ret.models_before, ret.scalers_before, ret.info_before, ret.name, table)

\* the model of the call accepted the preprocessed table, which has no row:
\* model.predict gave an empty array
NoPrediction ==
    /\ Predicted.frame # None
    /\ Len(Predicted.frame.rows) = 0
    /\ ~predict_fails(load_model(ret.models_before, ret.name).value, Predicted.frame)

\* C19: when the model yields no prediction, analyze_csv returns a no-data
\* condition: it does not raise and the result carries no statistics.
C19_EmptyBatchGuarded ==
    ret.op = "analyze_csv" /\ NoPrediction
    => /\ ~ret.raised
       /\ "summary_stats" \notin ret.value.keys
       /\ "insights" \notin ret.value.keys

\* C20: for a batch whose predictions are all equal, one prediction included,
\* analyze_csv does not raise and reports the value as mean, std 0, no
\* outlier and the symmetric shape.
C20_ConstantBatchSymmetric ==
    /\ ret.op = "analyze_csv"
    /\ ~Predicted.raised
    /\ Len(Predicted.value) > 0
    /\ \A j \in DOMAIN Predicted.value : Predicted.value[j] = Predicted.value[1]
    => /\ ~ret.raised
       /\ ret.value.summary_stats.mean.num
              = Predicted.value[1] * ret.value.summary_stats.mean.den
       /\ ret.value.summary_stats.variance.num = 0
       /\ ret.value.insights.outlier_count = 0
       /\ ret.value.insights.distribution_shape = "Normal (symmetric)"

----------------------------------------------------------------------------
(* The claims about calculate_risk.  They are checked under SpecRisk.      *)

\* a calculate_risk call that returned an assessment
RiskScored == ret.op = "calculate_risk" /\ ~ret.raised

\* the estimator the call scored with
RiskModel == loaded_models[ret.name]

\* C12: the raw score of calculate_risk is the probability of class index 1
\* when the model has predict_proba and was fitted on two classes or more, and
\* the model's own prediction for the row when it has no predict_proba.
C12_ScoreSource ==
    RiskScored =>
        /\ HasAttr(RiskModel, "predict_proba") /\ Len(RiskModel.classes) >= 2
              => ret.value.risk_score = RiskModel.proba[2]
        /\ ~HasAttr(RiskModel, "predict_proba")
              => ret.value.risk_score = RiskModel.value

\* a two-class classifier was scored whose probability of class 1 is neither
\* its probability of class 0 nor the label it predicts
C12_Witness ==
    /\ RiskScored
    /\ HasAttr(RiskModel, "predict_proba")
    /\ RiskModel.proba = <<70, 30>>
    /\ ret.value.risk_score = 30

\* the dict the caller gave and the dict calculate_risk made of it
GivenFeatures == ret.out.feature_values
ScoredFeatures == ret.out.full_features

\* a value as 0 or 1 when it is a bool, else itself
ZeroOrOne(value) ==
    IF IsBool(value) THEN (IF value = Bool(TRUE) THEN Tenths(1, 0) ELSE Tenths(0, 0))
    ELSE value

\* C13: the features calculate_risk scores are the schema defaults overlaid
\* by the caller's values: a feature the caller gives has the caller's value,
\* a schema feature the caller leaves out has its default, and every bool,
\* given or default, is 0 or 1.
C13_DefaultsOverlaid ==
    ret.op = "calculate_risk" =>
        /\ \A k \in Range(GivenFeatures.order) :
               ScoredFeatures.at[k] = ZeroOrOne(GivenFeatures.at[k])
        /\ \A j \in DOMAIN FeatureDefinitions :
               FeatureDefinitions[j].name \notin Range(GivenFeatures.order)
               => ScoredFeatures.at[FeatureDefinitions[j].name]
                     = ZeroOrOne(FeatureDefinitions[j].default_value)
        /\ \A k \in DOMAIN ScoredFeatures.at : ~IsBool(ScoredFeatures.at[k])

\* the caller gave a bool that differs from its default and a number that
\* differs from its default, and left a bool of the schema out
C13_Witness ==
    /\ RiskScored
    /\ RF \in Range(GivenFeatures.order)
    /\ GivenFeatures.at[RF] = Bool(TRUE)
    /\ TR \in Range(GivenFeatures.order)
    /\ "High Tech Dummy" \notin Range(GivenFeatures.order)
    /\ ScoredFeatures.at[RF] = Tenths(1, 0)
    /\ ScoredFeatures.at[TR] = Tenths(0, 0)
    /\ ScoredFeatures.at["High Tech Dummy"] = Tenths(1, 0)

\* C14: the level is low for a score below 0.3, medium from 0.3 up to but not
\* 0.7, high from 0.7: each threshold belongs to the band above it, and every
\* score has one level.
C14_LevelBands ==
    RiskScored =>
        /\ ret.value.risk_score < 30 => ret.value.risk_level = "low"
        /\ ret.value.risk_score >= 30 /\ ret.value.risk_score < 70
              => ret.value.risk_level = "medium"
        /\ ret.value.risk_score >= 70 => ret.value.risk_level = "high"
        /\ ret.value.risk_level \in {"low", "medium", "high"}

\* a score on the threshold 0.3 was given the level medium
C14_Witness ==
    RiskScored /\ ret.value.risk_score = 30 /\ ret.value.risk_level = "medium"

\* C15: the confidence is max(2 * |score - 0.5|, 0.6): 0.6 at score 0.5, 1.0 at
\* score 0.0 and at 1.0, never below 0.6, and at most 1.0 for a score in [0, 1].
C15_ConfidenceFloor ==
    RiskScored =>
        /\ ret.value.confidence >= 60
        /\ ret.value.confidence >= 2 * (ret.value.risk_score - 50)
        /\ ret.value.confidence >= 2 * (50 - ret.value.risk_score)
        /\ ret.value.confidence \in {60, 2 * (ret.value.risk_score - 50),
                                      2 * (50 - ret.value.risk_score)}
        /\ ret.value.risk_score = 50 => ret.value.confidence = 60
        /\ ret.value.risk_score \in {0, 100} => ret.value.confidence = 100
        /\ ret.value.risk_score >= 0 /\ ret.value.risk_score <= 100
              => ret.value.confidence <= 100

\* a score of 0.5 was returned with the confidence 0.6
C15_Witness ==
    RiskScored /\ ret.value.risk_score = 50 /\ ret.value.confidence = 60

\* C16: every assessment calculate_risk returns has its risk_score in [0, 1],
\* whether the model is a classifier or a regressor, and on the fallback path.
C16_ScoreInUnitInterval ==
    RiskScored => ret.value.risk_score >= 0 /\ ret.value.risk_score <= 100

\* the checks of _get_key_factors that hold on the scored features, by position
TriggeredChecks ==
    {j \in DOMAIN risk_checks : condition(ScoredFeatures, risk_checks[j])}

\* the position, among the checks, of the check an entry of key_factors is of
CheckOf(entry) == CHOOSE j \in DOMAIN risk_checks : risk_checks[j].factor = entry.factor

\* the check i is ahead of the check j in key_factors: a higher impact, or the
\* same impact and met first
Ahead(i, j) ==
    \/ impact_order(risk_checks[i].impact) > impact_order(risk_checks[j].impact)
    \/ /\ impact_order(risk_checks[i].impact) = impact_order(risk_checks[j].impact)
       /\ i < j

\* C17: key_factors holds only checks that the merged features trigger, each
\* once, by impact from high to low and, within an impact, in the order of the
\* checks; it is cut to 5 entries, so a triggered check is left out only when
\* 5 checks ahead of it are in.
C17_KeyFactorsRanked ==
    RiskScored =>
        LET kf == ret.value.key_factors
        IN  /\ Len(kf) <= 5
            /\ \A a \in DOMAIN kf :
                   /\ \E j \in DOMAIN risk_checks :
                         risk_checks[j].factor = kf[a].factor
                   /\ CheckOf(kf[a]) \in TriggeredChecks
                   /\ kf[a].impact = risk_checks[CheckOf(kf[a])].impact
            /\ \A a, b \in DOMAIN kf :
                   a < b => Ahead(CheckOf(kf[a]), CheckOf(kf[b]))
            /\ \A j \in TriggeredChecks :
                   (\A a \in DOMAIN kf : CheckOf(kf[a]) # j)
                   => /\ Len(kf) = 5
                      /\ \A a \in DOMAIN kf : Ahead(CheckOf(kf[a]), j)

\* more than 5 checks hold, the late high-impact one is second in key_factors
\* and the low-impact one is cut
C17_Witness ==
    /\ RiskScored
    /\ Cardinality(TriggeredChecks) > 5
    /\ Len(ret.value.key_factors) = 5
    /\ ret.value.key_factors[1].factor = "Poor Access to Financing"
    /\ ret.value.key_factors[2].factor = "Weak Infrastructure"
    /\ ret.value.key_factors[3].factor = "First-time Founder"
    /\ 5 \in TriggeredChecks

\* C18: when loading or predicting fails in the try block and again in the
\* fallback, calculate_risk raises an error whose message names the model; it
\* never returns an assessment with a default score.
C18_FailureNamesModel ==
    ret.op = "calculate_risk" /\ ret.raised
    => /\ ret.value = None
       /\ ret.msg \in {"not found", "corrupted"}

----------------------------------------------------------------------------
(* The claim about the risk segments.  It is checked under SpecSegment.    *)

\* an analyze_csv call that returned its statistics
Segmented == ret.op = "analyze_csv" /\ ~ret.raised

Segments == ret.value.insights.risk_segments

\* the 33rd and the 67th percentile of the predictions, times 100
Cut(q) == percentile_times_100(Sorted(ret.value.predictions), q)

\* the counts are those of the three bands, and each prediction is in one band
SegmentsPartition ==
    /\ \A j \in DOMAIN ret.value.predictions :
           Cardinality({b \in {"low", "medium", "high"} :
               CASE b = "low" -> 100 * ret.value.predictions[j] < Cut(33)
                 [] b = "medium" -> /\ 100 * ret.value.predictions[j] >= Cut(33)
                                    /\ 100 * ret.value.predictions[j] < Cut(67)
                 [] OTHER -> 100 * ret.value.predictions[j] >= Cut(67)}) = 1
    /\ Segments.low.count =
          Cardinality({j \in DOMAIN ret.value.predictions :
                          100 * ret.value.predictions[j] < Cut(33)})
    /\ Segments.high.count =
          Cardinality({j \in DOMAIN ret.value.predictions :
                          100 * ret.value.predictions[j] >= Cut(67)})
    /\ Segments.low.count + Segments.medium.count + Segments.high.count
          = Len(ret.value.predictions)

\* the lowest exponent of the three percentages
PercentExp ==
    CHOOSE e \in {Segments.low.percentage.exp, Segments.medium.percentage.exp,
                  Segments.high.percentage.exp} :
        \A f \in {Segments.low.percentage.exp, Segments.medium.percentage.exp,
                   Segments.high.percentage.exp} : e <= f

\* a percentage in units of 2 ** PercentExp
PercentUnits(x) == BigMul(x.man, BigPow2(x.exp - PercentExp))

\* the sum of the three percentages, and 100, in units of 2 ** PercentExp
PercentTotal ==
    BigTrim(BigAdd(BigAdd(PercentUnits(Segments.low.percentage),
                          PercentUnits(Segments.medium.percentage), 0),
                   PercentUnits(Segments.high.percentage), 0))

Hundred == BigTrim(BigScale(BigPow2(0 - PercentExp), 100, 0))

\* the sum of the percentages is within 2 ** -40 of 100
PercentagesNear100 ==
    BigLess(BigMul(IF BigLess(PercentTotal, Hundred)
                   THEN BigSub(Hundred, PercentTotal, 0)
                   ELSE BigSub(PercentTotal, Hundred, 0),
                   BigPow2(40)),
            BigPow2(0 - PercentExp))

\* C21 as stated: the segments partition the batch, the three counts sum to
\* the batch size and the three percentages sum to 100.
C21_SegmentsSumTo100 ==
    Segmented => SegmentsPartition /\ PercentTotal = Hundred

\* C21, amended: the segments partition the batch, the three counts sum to
\* the batch size, and the three percentages, each a float, sum to 100 to
\* within rounding (2 ** -40).
C21_SegmentsPartition ==
    Segmented => SegmentsPartition /\ PercentagesNear100

\* a batch of three was split one, one and one: each percentage is the float
\* of 100 / 3, and three of them are not 100
C21_Witness ==
    /\ Segmented
    /\ Segments.low.count = 1
    /\ Segments.medium.count = 1
    /\ Segments.high.count = 1
    /\ PercentTotal # Hundred


----------------------------------------------------------------------------
(* The claim about concurrent loads.  It is checked under SpecLoad.        *)

\* what load_model gives for the file of a name when it runs alone on an
\* empty cache
AloneResult(name) ==
    [raised |-> load_model(<<>>, name).raised, exc |-> load_model(<<>>, name).exc,
     msg |-> load_model(<<>>, name).msg, value |-> load_model(<<>>, name).value]

AllDone == \A t \in Threads : calls[t].pc = "done"

\* C22: whatever the interleaving of concurrent load_model calls, each call
\* that completes returns the artifact of its name's file or raises the error
\* for that file; the cache never holds an entry that is not a loaded
\* artifact; and once all calls are done the cache holds the artifact of
\* each name loaded, and nothing for a name whose load failed.
C22_ConcurrentLoads ==
    /\ \A t \in Threads :
           calls[t].pc = "done" => calls[t].result = AloneResult(calls[t].name)
    /\ \A n \in DOMAIN loaded_models :
           FileAt(n).pickle = "ok" /\ loaded_models[n] = FileAt(n).obj
    /\ AllDone =>
           DOMAIN loaded_models =
               {calls[t].name : t \in {u \in Threads : ~calls[u].result.raised}}

\* two calls for the same name both read the file and both stored: the load
\* was duplicated, and the cache has the one entry
C22_Witness ==
    /\ AllDone
    /\ calls[1].name = calls[2].name
    /\ calls[1].model # None
    /\ calls[2].model # None
    /\ DOMAIN loaded_models = {calls[1].name}

----------------------------------------------------------------------------
(* The claims about the metadata and the training job, under SpecTrain.    *)

NoDuplicates(seq) == Cardinality(Range(seq)) = Len(seq)

\* scale_features and leave_unscaled split the predictors
SplitsPredictors(info) ==
    /\ NoDuplicates(info.scale_features)
    /\ NoDuplicates(info.leave_unscaled)
    /\ Range(info.scale_features) \cap Range(info.leave_unscaled) = {}
    /\ Range(info.scale_features) \cup Range(info.leave_unscaled)
          = Range(info.predictors)

\* C23: whenever metadata is present, in the store (the built-in default or
\* what was read from the file) or in the file the training job wrote, its
\* scale_features and leave_unscaled are disjoint, have no duplicates and
\* together are the predictors.
C23_MetadataPartition ==
    /\ model_info # None => SplitsPredictors(model_info)
    /\ info_file.exists /\ info_file.pickle = "ok" => SplitsPredictors(info_file.obj)
    /\ SplitsPredictors(DefaultInfo)

\* the store holds metadata of a training run that dropped a scaled and an
\* unscaled predictor
C23_Witness ==
    /\ model_info # None
    /\ model_info = info_file.obj
    /\ TR \notin Range(model_info.predictors)
    /\ RF \notin Range(model_info.predictors)
    /\ NE \in Range(model_info.scale_features)

----------------------------------------------------------------------------
(* The claim about fatal mismatches.  It is checked under SpecBatch.       *)

\* preprocess_data as the analyze_csv call ran it, after load_model
BatchPreprocessed ==
    preprocess_data(load_model(ret.models_before, ret.name).loaded_models,
                    ret.scalers_before, ret.info_before, table, ret.name)

\* a predictor the call resolved is not a column of the table
Mismatch == \E c \in Range(BatchPreprocessed.resolved) : c \notin Range(table.columns)

\* no predictor the call resolved is a column, and no column is numeric
FatalMismatch ==
    /\ \A c \in Range(BatchPreprocessed.resolved) : c \notin Range(table.columns)
    /\ Range(table.columns) \subseteq table.object

\* C24: a mismatch is fatal only when no resolved predictor is a column of
\* the table and the table has no numeric column; then the call fails with an
\* error that names the missing predictor columns.  With any other mismatch
\* preprocessing does not fail, and nor does the call for that reason.
C24_FatalOnlyWithoutColumns ==
    ret.op = "analyze_csv" /\ Mismatch /\ Len(table.rows) > 0 /\ table.columns # <<>>
    => /\ ~BatchPreprocessed.raised
       /\ FatalMismatch
             => /\ ret.raised
                /\ predict_error_names_columns(load_model(ret.models_before,
                                                          ret.name).value)
       /\ ~FatalMismatch => ~ret.raised

----------------------------------------------------------------------------
(* The claims about what the calls leave alone.                            *)

ScoringCall == ret.op \in {"preprocess_data", "analyze_csv", "calculate_risk"}

\* every entry the caches held before the call is held unchanged after it
CachesKept ==
    /\ \A n \in DOMAIN ret.models_before :
          n \in DOMAIN loaded_models /\ loaded_models[n] = ret.models_before[n]
    /\ "scaler" \in ret.scalers_before.keys => loaded_scalers = ret.scalers_before
    /\ ret.info_before # None => model_info = ret.info_before

\* an entry the call added is what the file holds, or the built-in default
CachesAddedAsRead ==
    /\ \A n \in DOMAIN loaded_models \ DOMAIN ret.models_before :
          FileAt(n).exists /\ loaded_models[n] = FileAt(n).obj
    /\ "scaler" \in loaded_scalers.keys \ ret.scalers_before.keys
          => loaded_scalers.scaler = IF scaler_file.exists THEN scaler_file.obj ELSE None
    /\ ret.info_before = None /\ model_info # None
          => model_info = IF info_file.exists THEN info_file.obj ELSE DefaultInfo

\* the call cut its lists down to the columns of the table
Degraded ==
    /\ ret.op = "preprocess_data"
    /\ ~ret.raised
    /\ ret.out.predictors # ret.out.resolved

\* C25: a scoring call (preprocess_data, analyze_csv, calculate_risk) changes
\* nothing of the store but adds cache entries: the models, the scaler and the
\* metadata cached before the call are the same after it, the metadata lists
\* included, also when the call degraded to a subset of the columns; what the
\* call added is the content of the files (or the default metadata).
C25_ScoringOnlyFillsCaches == ScoringCall => CachesKept /\ CachesAddedAsRead

\* a degraded call on a store whose metadata was already cached, and one that
\* cached the metadata itself: both keep a predictor the table does not have
C25_Witness ==
    /\ Degraded
    /\ model_info # None
    /\ \E c \in Range(model_info.predictors) : c \notin Range(table.columns)
    /\ ret.models_before = <<>> /\ loaded_models # <<>>

\* the file of the name holds a model that unpickles
ValidFile(name) == FileAt(name).exists /\ FileAt(name).pickle = "ok"

\* the call just made is load_model again, of the name whose load failed last
LoadAfterFailure ==
    /\ FailedLoad(prev)
    /\ ret.op = "load_model"
    /\ ret.name = prev.name

\* C26: a load_model that failed (file missing or not deserializable) left the
\* model cache as it was, with no entry for the name; the next load_model of
\* the name reads the directory again: it succeeds, returning and caching what
\* the file holds, when a valid file is there, and fails again otherwise.
C26_FailureNotCached ==
    /\ FailedLoad(ret)
          => loaded_models = ret.models_before /\ ret.name \notin DOMAIN loaded_models
    /\ LoadAfterFailure /\ ret.name \notin DOMAIN ret.models_before
          => /\ ret.raised <=> ~ValidFile(ret.name)
             /\ ~ret.raised
                   => /\ ret.opened
                      /\ ret.value = FileAt(ret.name).obj
                      /\ loaded_models = (ret.name :> ret.value) @@ ret.models_before
    /\ LoadAfterFailure /\ ret.name \in DOMAIN ret.models_before
          => ~ret.raised /\ ret.models_before[ret.name] # None

\* a load that failed on a corrupted file, then the same load succeeding on
\* the file written since
C26_Witness ==
    /\ LoadAfterFailure
    /\ prev.msg = "corrupted"
    /\ ~ret.raised
    /\ ret.opened
    /\ ret.name \in DOMAIN loaded_models

\* a load that failed, then the same load failing again on the file still
\* missing
C26_WitnessAgain ==
    /\ LoadAfterFailure
    /\ prev.msg = "not found"
    /\ ret.raised
    /\ ~FileAt(ret.name).exists

----------------------------------------------------------------------------
(* The claims about artifacts that appear after the store looked for them. *)

AbsentScalerCached == "scaler" \in loaded_scalers.keys /\ loaded_scalers.scaler = None

DefaultInfoCached == model_info = DefaultInfo

\* the call just made found the store with the absence already cached
ScalerWasAbsent ==
    "scaler" \in ret.scalers_before.keys /\ ret.scalers_before.scaler = None

InfoWasAbsent == ret.info_before = DefaultInfo

\* what the calls return once the absence is cached, whatever the files are
AbsenceServed ==
    /\ ret.op = "load_scaler" /\ ~ret.raised /\ ret.value = None => AbsentScalerCached
    /\ ret.op = "load_scaler" /\ ScalerWasAbsent => ~ret.raised /\ ret.value = None
    /\ ret.op = "load_model_info" /\ ~ret.raised /\ ~info_file.exists
          => DefaultInfoCached /\ ret.value = DefaultInfo
    /\ ret.op = "load_model_info" /\ InfoWasAbsent
          => ~ret.raised /\ ret.value = DefaultInfo
    /\ ret.op = "preprocess_data" /\ ScalerWasAbsent
          => ~ret.raised /\ ~ret.out.attempted /\ ~ret.out.scaled
    /\ ret.op = "preprocess_data" /\ InfoWasAbsent /\ ret.name = NoName
          => ret.out.resolved = DefaultInfo.predictors

\* C27: absence is cached for the life of the store.  A load_scaler that
\* returned None for a missing file, and a load_model_info that returned the
\* default for a missing file, cached that value; no step of the store or of
\* the training job replaces it; every later call returns it, preprocess_data
\* skips scaling and uses the default predictors, also after the files exist.
C27_AbsenceCached ==
    /\ []AbsenceServed
    /\ [][AbsentScalerCached => loaded_scalers' = loaded_scalers]_vars
    /\ [][DefaultInfoCached => model_info' = model_info]_vars

\* the training job has written the scaler and the metadata after the store
\* cached their absence, and preprocess_data still scales nothing and uses the
\* default predictors
C27_Witness ==
    /\ ret.op = "preprocess_data"
    /\ ret.name = NoName
    /\ ScalerWasAbsent /\ InfoWasAbsent
    /\ scaler_file.exists /\ info_file.exists
    /\ ~ret.out.attempted
    /\ ret.out.resolved = DefaultInfo.predictors

----------------------------------------------------------------------------
(* The claim about the caller's table.                                     *)

----------------------------------------------------------------------------
(* The claims about the schema of the risk service.                        *)

SchemaNames == {FeatureDefinitions[j].name : j \in DOMAIN FeatureDefinitions}

\* the call just made is calculate_risk on default metadata, with a model
\* that unpickles and declares no feature names
RiskOnDefaults ==
    /\ ret.op = "calculate_risk"
    /\ ret.info_before = None /\ ~info_file.exists
    /\ ValidFile(ret.name)
    /\ ~HasAttr(FileAt(ret.name).obj, "feature_names_in_")
    /\ FileAt(ret.name).obj.booster_feature_names = <<>>

\* the frame calculate_risk built from the merged features, preprocessed
RiskPreprocessed ==
    preprocess_data(load_model(ret.models_before, ret.name).loaded_models,
                    ret.scalers_before, ret.info_before,
                    one_row_frame(ScoredFeatures), ret.name)

\* C29: the schema and the default metadata name the same 20 features; with
\* default metadata and a model that declares no feature names, the frame
\* calculate_risk scores has one row and exactly the 20 default predictors, in
\* the metadata's order, whatever features the caller gave (none included):
\* no predictor is missing from it.
C29_SchemaCoversDefaults ==
    /\ SchemaNames = Range(DefaultInfo.predictors)
    /\ Cardinality(SchemaNames) = 20 /\ Len(DefaultInfo.predictors) = 20
    /\ RiskOnDefaults
          => /\ ~RiskPreprocessed.raised
             /\ RiskPreprocessed.resolved = DefaultInfo.predictors
             /\ RiskPreprocessed.out.path = "predictors"
             /\ RiskPreprocessed.out.predictors = DefaultInfo.predictors
             /\ RiskPreprocessed.out.value.columns = DefaultInfo.predictors
             /\ Len(RiskPreprocessed.out.value.rows) = 1
             /\ model_info = DefaultInfo

\* the caller gave nothing, and the frame still has the 20 predictors
C29_Witness ==
    /\ RiskOnDefaults
    /\ GivenFeatures = EmptyDict
    /\ ~ret.raised
    /\ Len(RiskPreprocessed.out.value.columns) = 20

\* the factors of the checks that hold on the features d, in the checks' order
FactorsOn(d) ==
    [j \in 1..Len(SelectSeq(risk_checks, LAMBDA c : condition(d, c))) |->
        SelectSeq(risk_checks, LAMBDA c : condition(d, c))[j].factor]

FactorsReported == {ret.value.key_factors[j].factor : j \in DOMAIN ret.value.key_factors}

\* C30: key_factors is a function of the merged features alone.  Whatever
\* model is in the file and whatever score it gives, a successful
\* calculate_risk returns the key factors of defaults overlaid with the
\* caller's map, so two calls with the same map return the same key_factors;
\* a factor is reported only if its check holds on the raw merged value, and
\* when at most five checks hold every one of them is reported.
C30_KeyFactorsOfFeaturesOnly ==
    RiskScored
    => /\ ret.value.key_factors = get_key_factors(full_features(GivenFeatures))
       /\ FactorsReported \subseteq Range(FactorsOn(full_features(GivenFeatures)))
       /\ Len(FactorsOn(full_features(GivenFeatures))) <= 5
             => FactorsReported = Range(FactorsOn(full_features(GivenFeatures)))

\* the caller gave no trademark, the frame was scaled (its trademark cell is
\* no longer 0), the score is below the high band, and the factor of the raw
\* value is reported
C30_Witness ==
    /\ RiskScored
    /\ TR \in DOMAIN GivenFeatures.at
    /\ NumberOf(GivenFeatures.at[TR]) = 0
    /\ RiskPreprocessed.out.scaled
    /\ RiskPreprocessed.out.value.rows[1][TR] # Num(0)
    /\ ret.value.risk_score < 70
    /\ "No Intellectual Property" \in FactorsReported

====
